---- MODULE Spec2Model ----
(***************************************************************************)
(* Model of the generated IndexedDB query engine of prisma-idb             *)
(* (packages/usage/src/prisma/prisma-idb/prisma-idb-client.ts) for the     *)
(* schema User / Profile / Post / Comment.                                 *)
(*                                                                         *)
(* A record is a TLA+ record; a field that is undefined in JavaScript is   *)
(* a field that is absent from the record.  null is NullInt for numeric    *)
(* fields and NullStr for string fields.  A table is the set of its rows;  *)
(* getAll() returns them in key order.                                     *)
(***************************************************************************)
EXTENDS Integers, Sequences, FiniteSets, TLC

VARIABLES db, tx, cuid, calls, born, last, client

vars == <<db, tx, cuid, calls, born, last, client>>

(***************************************************************************)
(* Bounds of the model.                                                    *)
(***************************************************************************)
\* The keys a caller names are 0..MaxId; a behaviour makes at most MaxCalls calls.
MaxId == 1
MaxCalls == 2
\* The callers of createClient whose calls may overlap.
MaxCallers == 3

(***************************************************************************)
(* Values.                                                                 *)
(***************************************************************************)
NullInt == -1
NullStr == "<null>"
None == "none"
NotFound == "Record not found"
Unsupported == "connectOrCreate not yet implemented"
ConstraintError == "ConstraintError"
TypeError == "TypeError"
DataError == "DataError"

Entities == {"User", "Profile", "Post", "Comment"}
EmptyStore == [e \in Entities |-> {}]
EmptyRec == [f \in {} |-> 0]
CuidPool == <<"c1", "c2", "c3", "c4", "c5", "c6", "c7", "c8">>

Has(r, f) == f \in DOMAIN r

\* JavaScript truthiness of a numeric value: 0 is falsy.
TruthyNum(v) == v # 0

\* JavaScript truthiness of a string value: "" is falsy.
TruthyStr(v) == v # ""

\* { ...r, f: v }
With(r, f, v) == (f :> v) @@ r

\* delete r[f]
Without(r, fs) == [k \in (DOMAIN r) \ fs |-> r[k]]

\* Results of a lookup: a record, null or undefined.
RNull == [k |-> "null"]
RUndef == [k |-> "undefined"]
RRec(r) == [k |-> "rec", v |-> r]
IsRec(x) == x.k = "rec"

\* const x = v; ... : the value v under the name the body F gives it.
Bind(v, F(_)) == F(v)

RECURSIVE SeqToSet(_)
SeqToSet(s) == IF s = <<>> THEN {} ELSE {Head(s)} \cup SeqToSet(Tail(s))

(***************************************************************************)
(* The store adapter: one table per entity, keyed by id.                   *)
(***************************************************************************)
CuidIndex(k) == CHOOSE i \in 1..Len(CuidPool) : CuidPool[i] = k

\* Position of a key in the key order of its table.
KeyOrd(e, k) == IF e = "Comment" THEN CuidIndex(k) ELSE k

RECURSIVE SortRows(_, _)
SortRows(e, S) ==
  IF S = {} THEN <<>>
  ELSE LET m == CHOOSE r \in S : \A o \in S : KeyOrd(e, r.id) <= KeyOrd(e, o.id)
       IN <<m>> \o SortRows(e, S \ {m})

\* tx.objectStore(e).getAll()
GetAll(st, e) == SortRows(e, st[e])

\* tx.objectStore(e).get([k])
Get(st, e, k) ==
  IF \E r \in st[e] : r.id = k
  THEN RRec(CHOOSE r \in st[e] : r.id = k)
  ELSE RUndef

\* tx.objectStore("Profile").index("userIdIndex").get([k])
GetByUserId(st, k) ==
  IF \E r \in st["Profile"] : Has(r, "userId") /\ r.userId = k
  THEN RRec(CHOOSE r \in st["Profile"] : Has(r, "userId") /\ r.userId = k)
  ELSE RUndef

\* A faulty cursor: the number of rows instead of the largest key.
CountAsLastKey(st, e) == Cardinality(st[e])

\* store.openCursor(null, "prev"): the largest key, 0 when the table is empty.
LastKey(st, e) ==
  IF st[e] = {} THEN 0
  ELSE (CHOOSE r \in st[e] : \A o \in st[e] : o.id <= r.id).id

(***************************************************************************)
(* The context of a running operation: the transaction's view of the       *)
(* store, the writes issued so far, the error raised (None when none),     *)
(* whether the transaction was aborted, the cuid counter, the value the    *)
(* last sub-operation returned, the tables the transaction was opened      *)
(* over, the tables touched through it, and the sub-queries that ran on a  *)
(* transaction of their own.                                               *)
(***************************************************************************)
Ctx(st, n) == [st |-> st, log |-> <<>>, err |-> None, aborted |-> FALSE,
               cuid |-> n, ret |-> RNull, scope |-> Entities, reads |-> {},
               own |-> {}, events |-> <<>>]

Ok(c) == c.err = None /\ ~c.aborted

\* throw new Error(e)
Throw(c, e) == [c EXCEPT !.err = e]

\* tx.abort(); throw new Error(e)
AbortThrow(c, e) == [c EXCEPT !.err = e, !.aborted = TRUE]

Return(c, v) == [c EXCEPT !.ret = v]

\* BaseIDBModelClass.emit: the event is dispatched to the listeners of the
\* model class.  No method of the model classes calls it.
Emit(c, e, kind) == [c EXCEPT !.events = Append(@, [e |-> e, kind |-> kind])]

\* The unique index userIdIndex of Profile rejects a second row with the same userId.
ViolatesIndex(st, e, rec) ==
  /\ e = "Profile"
  /\ Has(rec, "userId")
  /\ \E r \in st[e] : r.id # rec.id /\ Has(r, "userId") /\ r.userId = rec.userId

\* tx.objectStore(e).add(rec): a failed request aborts the transaction.
Add(c, e, rec) ==
  IF ~Has(rec, "id") THEN Throw(c, DataError)
  ELSE IF (\E r \in c.st[e] : r.id = rec.id) \/ ViolatesIndex(c.st, e, rec)
  THEN AbortThrow(c, ConstraintError)
  ELSE [c EXCEPT !.st[e] = @ \cup {rec},
                 !.log = Append(@, [op |-> "add", e |-> e, key |-> rec.id])]

\* tx.objectStore(e).put(rec)
Put(c, e, rec) ==
  IF ~Has(rec, "id") THEN Throw(c, DataError)
  ELSE IF ViolatesIndex(c.st, e, rec) THEN AbortThrow(c, ConstraintError)
  ELSE [c EXCEPT !.st[e] = {r \in @ : r.id # rec.id} \cup {rec},
                 !.log = Append(@, [op |-> "put", e |-> e, key |-> rec.id])]

\* tx.objectStore(e).delete([k])
Del(c, e, k) ==
  [c EXCEPT !.st[e] = {r \in @ : r.id # k},
            !.log = Append(@, [op |-> "delete", e |-> e, key |-> k])]

(***************************************************************************)
(* Schema metadata (schema.prisma).                                        *)
(***************************************************************************)
StringFields(e) ==
  CASE e = "User" -> {"name"}
    [] e = "Profile" -> {"bio"}
    [] e = "Post" -> {"title"}
    [] e = "Comment" -> {"id", "text"}

NumberFields(e) ==
  CASE e = "User" -> {"id"}
    [] e = "Profile" -> {"id", "userId"}
    [] e = "Post" -> {"id", "authorId"}
    [] e = "Comment" -> {"postId", "userId"}

RelationFields(e) ==
  CASE e = "User" -> {"profile", "posts", "comments"}
    [] e = "Profile" -> {"user"}
    [] e = "Post" -> {"author", "comments"}
    [] e = "Comment" -> {"post", "user"}

ListFields(e) == IF e = "Post" THEN {"tags", "numberArr"} ELSE {}

AllFields(e) == StringFields(e) \cup NumberFields(e) \cup RelationFields(e) \cup ListFields(e)

\* The relations of an entity in the order its methods visit them: the
\* related entity, whether the relation is to-many, and the fields a
\* sub-query equates (related.to = record.from).
Relations(e) ==
  CASE e = "User" ->
         <<[rel |-> "profile", many |-> FALSE, target |-> "Profile", from |-> "id", to |-> "userId"],
           [rel |-> "posts", many |-> TRUE, target |-> "Post", from |-> "id", to |-> "authorId"],
           [rel |-> "comments", many |-> TRUE, target |-> "Comment", from |-> "id", to |-> "userId"]>>
    [] e = "Profile" ->
         <<[rel |-> "user", many |-> FALSE, target |-> "User", from |-> "userId", to |-> "id"]>>
    [] e = "Post" ->
         <<[rel |-> "author", many |-> FALSE, target |-> "User", from |-> "authorId", to |-> "id"],
           [rel |-> "comments", many |-> TRUE, target |-> "Comment", from |-> "id", to |-> "postId"]>>
    [] e = "Comment" ->
         <<[rel |-> "post", many |-> FALSE, target |-> "Post", from |-> "postId", to |-> "id"],
           [rel |-> "user", many |-> FALSE, target |-> "User", from |-> "userId", to |-> "id"]>>

\* query.select?.rel || query.include?.rel
Attach(q, rel) ==
  IF Has(q, "select") /\ Has(q.select, rel) THEN RRec(q.select[rel])
  ELSE IF Has(q, "include") /\ Has(q.include, rel) THEN RRec(q.include[rel])
  ELSE RNull

\* { ...(attach === true ? {} : attach), where: w }
SubQuery(attach, w) == With(attach.v, "where", w)

(***************************************************************************)
(* Query shapes.  A where clause is a record: a scalar field maps to the   *)
(* value it must equal; AND, OR and NOT map to one nested clause; a to-one *)
(* relation maps to NullClause (relation: null) or to a record that holds  *)
(* is / isNot (each a clause or NullClause) or the fields of a bare        *)
(* clause; a to-many relation maps to a record with every / some / none.   *)
(* An orderBy is a sequence of one-key clauses: a scalar field maps to     *)
(* "asc" or "desc", a to-one relation to a clause of the related entity, a *)
(* to-many relation to [_count |-> direction].                             *)
(***************************************************************************)
NullClause == [null |-> TRUE]

LogicalParams == <<"AND", "OR", "NOT">>

(***************************************************************************)
(* Transaction-scope analyzer: the tables a transaction is opened over.    *)
(***************************************************************************)
\* _getNeededStoresForWhere: the logical keys are walked; a to-one relation
\* whose clause is truthy adds its table and walks the clause as a clause of
\* the related entity; a to-many relation adds its table and walks every,
\* some and none.
RECURSIVE NeededStoresForWhere(_, _)
NeededStoresForWhere(e, w) ==
  LET rels == {r \in SeqToSet(Relations(e)) : Has(w, r.rel) /\ w[r.rel] # NullClause}
  IN UNION ({NeededStoresForWhere(e, w[p]) : p \in SeqToSet(LogicalParams) \cap DOMAIN w}
       \cup {{r.target} : r \in rels}
       \cup {NeededStoresForWhere(r.target, w[r.rel]) : r \in {x \in rels : ~x.many}}
       \cup {UNION {NeededStoresForWhere(r.target, w[r.rel][k]) :
                       k \in {"every", "some", "none"} \cap DOMAIN w[r.rel]} :
               r \in {x \in rels : x.many}})

\* _getNeededStoresForFind: the own table, the tables of the where clause,
\* per relation the walk of the first orderBy clause that names it (handed
\* to the related entity as it stands), and per relation named in select or
\* include its table and the walk of the nested query.
RECURSIVE NeededStoresForFind(_, _)
NeededStoresForFind(e, q) ==
  LET orderBy == IF Has(q, "orderBy") THEN q.orderBy ELSE <<>>
      ordered == {r \in SeqToSet(Relations(e)) : \E i \in 1..Len(orderBy) : Has(orderBy[i], r.rel)}
      First(r) == orderBy[CHOOSE i \in 1..Len(orderBy) :
                    Has(orderBy[i], r.rel) /\ \A j \in 1..(i - 1) : ~Has(orderBy[j], r.rel)]
      attached == {r \in SeqToSet(Relations(e)) : IsRec(Attach(q, r.rel))}
  IN UNION ({{e}, NeededStoresForWhere(e, IF Has(q, "where") THEN q.where ELSE EmptyRec)}
       \cup {NeededStoresForFind(r.target, [orderBy |-> <<First(r)>>]) : r \in ordered}
       \cup {{r.target} \cup NeededStoresForFind(r.target, Attach(q, r.rel).v) : r \in attached})

\* _getNeededStoresForCreate: the own table, per relation present in the
\* data its table and the walk of every nested create payload
\* (create, connectOrCreate.create, createMany), and the table of an owning
\* relation whose foreign key is given directly.
RECURSIVE NeededStoresForCreate(_, _)
NeededStoresForCreate(e, d) ==
  LET rels == {r \in SeqToSet(Relations(e)) : Has(d, r.rel)}
      Payloads(r) ==
        (IF Has(d[r.rel], "create")
         THEN (IF r.many THEN SeqToSet(d[r.rel].create) ELSE {d[r.rel].create}) ELSE {})
        \cup (IF Has(d[r.rel], "connectOrCreate") THEN {d[r.rel].connectOrCreate.create} ELSE {})
        \cup (IF r.many /\ Has(d[r.rel], "createMany") THEN SeqToSet(d[r.rel].createMany) ELSE {})
  IN UNION ({{e}}
       \cup {{r.target} : r \in rels}
       \cup {UNION {NeededStoresForCreate(r.target, p) : p \in Payloads(r)} : r \in rels}
       \cup {{r.target} : r \in {x \in SeqToSet(Relations(e)) : x.from # "id" /\ Has(d, x.from)}})

(***************************************************************************)
(* The read path.  A read returns its rows together with its trace: the    *)
(* tables it read through the transaction handle, the sub-queries that ran *)
(* on a transaction of their own instead, and the first exception.         *)
(***************************************************************************)
StoreNotFound == "NotFoundError"

NoTrace == [reads |-> {}, own |-> {}, err |-> None]

\* a, with the trace of b added to its trace.
Merge(a, b) ==
  [a EXCEPT !.reads = @ \cup b.reads, !.own = @ \cup b.own,
            !.err = IF @ # None THEN @ ELSE b.err]

\* A call of one read method from another: Eval of the call record on the
\* transaction's view of the store.
RECURSIVE Eval(_, _)

\* this.client.<target>.findMany/findFirst/count(q, tx): on the handle when
\* tx is passed; otherwise on a new transaction over
\* _getNeededStoresForFind(q), where a read of any other table raises
\* NotFoundError.
Sub(target, q, st, own) ==
  Bind(Eval([op |-> "findMany", e |-> target, q |-> q], st), LAMBDA r :
    IF ~own THEN r
    ELSE [rows |-> r.rows, reads |-> {},
          own |-> r.own \cup {[e |-> target, q |-> q]},
          err |-> IF r.err # None THEN r.err
                  ELSE IF ~(r.reads \subseteq NeededStoresForFind(target, q))
                  THEN StoreNotFound ELSE None])

\* IDBUtils.whereStringFilter: no filter matches; a value matches the equal value.
whereStringFilter(record, field, w) ==
  IF ~Has(w, field) THEN TRUE
  ELSE Has(record, field) /\ record[field] = w[field]

\* IDBUtils.whereNumberFilter: no filter matches; a value matches the equal value.
whereNumberFilter(record, field, w) ==
  IF ~Has(w, field) THEN TRUE
  ELSE Has(record, field) /\ record[field] = w[field]

\* The checks _applyWhereClause makes on one record for one relation clause,
\* in the order of the code.  A static check compares the foreign key with
\* null; the others run a sub-query and want some row or none.  The to-one
\* sub-queries get the handle as their second argument; the to-many ones get
\* it inside the query object, where findFirst and findMany do not look.
RelationChecks(r, record, arg) ==
  LET fk == record[r.from]
      Q(P, want, own) == <<[static |-> FALSE, target |-> r.target,
                            where |-> With(P, r.to, fk), own |-> own, want |-> want]>>
      S(pass) == <<[static |-> TRUE, pass |-> pass]>>
      Null == IF r.rel = "profile" THEN Q(EmptyRec, "none", FALSE)
              ELSE IF r.rel = "author" THEN S(fk = NullInt) ELSE <<>>
      NotNull == IF r.rel = "profile" THEN Q(EmptyRec, "some", FALSE)
                 ELSE IF r.rel = "author" THEN S(fk # NullInt) ELSE <<>>
      Guard == IF r.rel = "author" THEN S(fk # NullInt) ELSE <<>>
  IN IF arg = NullClause THEN (IF r.many THEN <<>> ELSE Null)
     ELSE IF r.many
     THEN (IF Has(arg, "every") THEN Q([NOT |-> arg.every], "none", TRUE) ELSE <<>>)
          \o (IF Has(arg, "some") THEN Q(arg.some, "some", TRUE) ELSE <<>>)
          \o (IF Has(arg, "none") THEN Q(arg.none, "none", TRUE) ELSE <<>>)
     ELSE (IF ~Has(arg, "is") THEN <<>>
           ELSE IF arg.is = NullClause THEN Null
           ELSE Guard \o Q(arg.is, "some", FALSE))
          \o (IF ~Has(arg, "isNot") THEN <<>>
              ELSE IF arg.isNot = NullClause THEN NotNull
              ELSE Guard \o Q(arg.isNot, "none", FALSE))
          \o (IF DOMAIN arg \ {"is", "isNot"} = {} THEN <<>>
              ELSE Guard \o Q(arg, "some", FALSE))

\* The checks of every relation clause of w, relation by relation.
RECURSIVE WhereChecks(_, _, _)
WhereChecks(rels, record, w) ==
  IF rels = <<>> THEN <<>>
  ELSE (IF Has(w, Head(rels).rel)
        THEN RelationChecks(Head(rels), record, w[Head(rels).rel]) ELSE <<>>)
       \o WhereChecks(Tail(rels), record, w)

\* A faulty Judge: every check wants some row.
JudgeWantingSome(k, r, want) ==
  Merge([k EXCEPT !.keep = (r.rows # <<>>)], r)

\* The verdict on the record after one sub-query check.
Judge(k, r, want) ==
  Merge([k EXCEPT !.keep = ((want = "some") = (r.rows # <<>>))], r)

\* The checks run in order; the first one that fails or throws ends them.
RECURSIVE RunChecks(_, _, _)
RunChecks(checks, st, k) ==
  IF checks = <<>> \/ ~k.keep \/ k.err # None THEN k
  ELSE RunChecks(Tail(checks), st,
         IF Head(checks).static THEN [k EXCEPT !.keep = Head(checks).pass]
         ELSE Judge(k, Sub(Head(checks).target, [where |-> Head(checks).where],
                           st, Head(checks).own),
                    Head(checks).want))

\* IDBUtils.applyLogicalFilters: AND and OR keep the records the nested
\* clause keeps, NOT keeps the others.
RECURSIVE applyLogicalFilters(_, _, _, _, _)
applyLogicalFilters(params, e, t, w, st) ==
  IF params = <<>> THEN t
  ELSE IF ~Has(w, Head(params)) THEN applyLogicalFilters(Tail(params), e, t, w, st)
  ELSE applyLogicalFilters(Tail(params), e,
         Bind(Eval([op |-> "where", e |-> e, records |-> t.rows, q |-> w[Head(params)]], st),
              LAMBDA m :
                Merge([t EXCEPT !.rows = SelectSeq(@, LAMBDA r :
                         (Head(params) = "NOT") # (\E x \in SeqToSet(m.rows) : x.id = r.id))], m)),
         w, st)

\* A faulty per-record part: the first record is dropped and the others are
\* kept unfiltered.
KeepAllButFirst(e, records, w, st, acc) ==
  [acc EXCEPT !.rows = IF records = <<>> THEN <<>> ELSE Tail(records)]

\* The per-record part of _applyWhereClause: the scalar filters, then the
\* relation checks; acc collects the records that pass and the traces.
RECURSIVE KeepEach(_, _, _, _, _)
KeepEach(e, records, w, st, acc) ==
  IF records = <<>> THEN acc
  ELSE KeepEach(e, Tail(records), w, st,
         Bind(RunChecks(WhereChecks(Relations(e), Head(records), w), st,
                [keep |-> /\ \A f \in StringFields(e) : whereStringFilter(Head(records), f, w)
                          /\ \A f \in NumberFields(e) : whereNumberFilter(Head(records), f, w),
                 reads |-> {}, own |-> {}, err |-> None]),
              LAMBDA k :
                Merge([acc EXCEPT !.rows = IF k.keep /\ k.err = None
                                           THEN Append(@, Head(records)) ELSE @], k)))

\* _applyWhereClause: the logical filters, then the per-record filters.  A
\* clause without logical keys and relation clauses runs no sub-query: the
\* scalar filters alone decide.
ApplyWhereClause(e, records, w, st) ==
  IF DOMAIN w \cap (SeqToSet(LogicalParams) \cup RelationFields(e)) = {}
  THEN [rows |-> SelectSeq(records, LAMBDA record :
                   /\ \A f \in StringFields(e) : whereStringFilter(record, f, w)
                   /\ \A f \in NumberFields(e) : whereNumberFilter(record, f, w))]
         @@ NoTrace
  ELSE Bind(applyLogicalFilters(LogicalParams, e, [rows |-> records] @@ NoTrace, w, st),
            LAMBDA t : KeepEach(e, t.rows, w, st, [t EXCEPT !.rows = <<>>]))

(***************************************************************************)
(* Order resolver.  A sort key is null or a number; a string is keyed by   *)
(* its rank in the code-unit order of the strings the model uses, which    *)
(* compares as the strings do.                                             *)
(***************************************************************************)
StrOrder == <<"Jane", "John", "X", "Y">> \o CuidPool \o <<"p", "q", "t", "u">>

NullKey == [null |-> TRUE, v |-> 0]

\* _resolveOrderByKey: the value of a scalar field; for a to-many relation
\* the number of related rows (count on the handle); for a to-one relation
\* the key of the related row under the nested clause, where the related
\* row is fetched by findFirstOrThrow without the handle (not-found when
\* there is none) and an absent author gives null.
OrderByKey(e, record, clause, st) ==
  LET f == CHOOSE k \in DOMAIN clause : TRUE
      rs == SelectSeq(Relations(e), LAMBDA r : r.rel = f)
  IN IF rs = <<>>
     THEN [key |-> IF record[f] = (IF f \in StringFields(e) THEN NullStr ELSE NullInt)
                   THEN NullKey
                   ELSE [null |-> FALSE,
                         v |-> IF f \in StringFields(e)
                               THEN CHOOSE i \in 1..Len(StrOrder) : StrOrder[i] = record[f]
                               ELSE record[f]]]
            @@ NoTrace
     ELSE IF rs[1].rel = "author" /\ record.authorId = NullInt
     THEN [key |-> NullKey] @@ NoTrace
     ELSE Bind(Sub(rs[1].target, [where |-> (rs[1].to :> record[rs[1].from])], st, ~rs[1].many),
               LAMBDA found :
                 IF found.err # None THEN Merge([key |-> NullKey] @@ NoTrace, found)
                 ELSE IF rs[1].many
                 THEN Merge([key |-> [null |-> FALSE, v |-> Len(found.rows)]] @@ NoTrace, found)
                 ELSE IF found.rows = <<>>
                 THEN Merge([key |-> NullKey, reads |-> {}, own |-> {}, err |-> NotFound], found)
                 ELSE Merge(Eval([op |-> "key", e |-> rs[1].target, record |-> found.rows[1],
                                  q |-> clause[f]], st), found))

\* A faulty _resolveSortOrder: every clause is taken as ascending.
AscendingOrder(e, clause) == "asc"

\* _resolveSortOrder: the direction at the leaf of the clause.
RECURSIVE ResolveSortOrder(_, _)
ResolveSortOrder(e, clause) ==
  LET f == CHOOSE k \in DOMAIN clause : TRUE
      rs == SelectSeq(Relations(e), LAMBDA r : r.rel = f)
  IN IF rs = <<>> THEN clause[f]
     ELSE IF rs[1].many THEN clause[f]["_count"]
     ELSE ResolveSortOrder(rs[1].target, clause[f])

\* IDBUtils.genericComparator: negative, zero or positive; a null key sorts
\* before every other key in ascending order.
genericComparator(a, b, order) ==
  LET c == IF a.null /\ b.null THEN 0
           ELSE IF a.null THEN -1
           ELSE IF b.null THEN 1
           ELSE IF a.v < b.v THEN -1
           ELSE IF a.v > b.v THEN 1 ELSE 0
  IN IF order = "desc" THEN -c ELSE c

\* The comparison function of indexedKeys.sort is negative for (a, b): the
\* first clause on which the keys differ puts a first.
Before(a, b, orders) ==
  \E i \in 1..Len(orders) :
    /\ genericComparator(a.keys[i].key, b.keys[i].key, orders[i]) < 0
    /\ \A j \in 1..(i - 1) : genericComparator(a.keys[j].key, b.keys[j].key, orders[j]) = 0

\* A faulty sort: each item goes in front of the items it ties with.
RECURSIVE UnstableSort(_, _, _)
UnstableSort(items, orders, sorted) ==
  IF items = <<>> THEN sorted
  ELSE LET x == Head(items)
           p == IF \E i \in 1..Len(sorted) : ~Before(sorted[i], x, orders)
                THEN CHOOSE i \in 1..Len(sorted) :
                       /\ ~Before(sorted[i], x, orders)
                       /\ \A j \in 1..(i - 1) : Before(sorted[j], x, orders)
                ELSE Len(sorted) + 1
       IN UnstableSort(Tail(items), orders,
               SubSeq(sorted, 1, p - 1) \o <<x>> \o SubSeq(sorted, p, Len(sorted)))

\* Array.prototype.sort, which is stable: each item goes before the first
\* item it is in front of, behind the items it ties with.
RECURSIVE Sort(_, _, _)
Sort(items, orders, sorted) ==
  IF items = <<>> THEN sorted
  ELSE LET x == Head(items)
           p == IF \E i \in 1..Len(sorted) : Before(x, sorted[i], orders)
                THEN CHOOSE i \in 1..Len(sorted) :
                       /\ Before(x, sorted[i], orders)
                       /\ \A j \in 1..(i - 1) : ~Before(x, sorted[j], orders)
                ELSE Len(sorted) + 1
       IN Sort(Tail(items), orders,
               SubSeq(sorted, 1, p - 1) \o <<x>> \o SubSeq(sorted, p, Len(sorted)))

\* The sort of _applyOrderByClause on the records of t with their keys
\* (items); the first exception of a key resolution ends the query.
SortByKeys(e, t, orderBy, items) ==
  LET n == Len(orderBy)
      keys == [i \in 1..(Len(items) * n) |-> items[((i - 1) \div n) + 1].keys[((i - 1) % n) + 1]]
      failed == {i \in DOMAIN keys : keys[i].err # None}
      sorted == Sort(items, [i \in 1..n |-> ResolveSortOrder(e, orderBy[i])], <<>>)
  IN [rows |-> IF failed # {} THEN t.rows ELSE [i \in 1..Len(sorted) |-> sorted[i].record],
      reads |-> t.reads \cup UNION {keys[i].reads : i \in DOMAIN keys},
      own |-> t.own \cup UNION {keys[i].own : i \in DOMAIN keys},
      err |-> IF failed = {} THEN None
              ELSE keys[CHOOSE i \in failed : \A j \in failed : i <= j].err]

\* The tables _applyRelations reads through the handle: the table of every
\* relation named in select or include for which some record issues its
\* sub-query (a Post without author issues none for author).
AttachReads(e, records, q) ==
  {r.target : r \in {x \in SeqToSet(Relations(e)) :
      /\ IsRec(Attach(q, x.rel))
      /\ \E i \in 1..Len(records) : ~(x.rel = "author" /\ records[i].authorId = NullInt)}}

\* A faulty attacher: the to-many sub-query is not scoped by the foreign key.
RelatedUnscoped(r, record, st, attach) ==
  IF r.many
  THEN Eval([op |-> "findMany", e |-> r.target, q |-> attach.v], st).rows
  ELSE IF r.rel = "author" /\ record.authorId = NullInt THEN RNull
  ELSE Eval([op |-> "findUnique", e |-> r.target,
             q |-> SubQuery(attach, (r.to :> record[r.from]))], st)

\* The value _applyRelations attaches under one relation: findMany for a
\* to-many relation, findUnique for a to-one relation, null for the optional
\* author of a Post whose authorId is null.
Related(r, record, st, attach) ==
  IF r.many
  THEN Eval([op |-> "findMany", e |-> r.target,
             q |-> SubQuery(attach, (r.to :> record[r.from]))], st).rows
  ELSE IF r.rel = "author" /\ record.authorId = NullInt THEN RNull
  ELSE Eval([op |-> "findUnique", e |-> r.target,
             q |-> SubQuery(attach, (r.to :> record[r.from]))], st)

\* One record with the relations named in select or include attached.
RECURSIVE AttachRelations(_, _, _, _)
AttachRelations(rels, record, st, q) ==
  IF rels = <<>> THEN record
  ELSE AttachRelations(Tail(rels),
         IF IsRec(Attach(q, Head(rels).rel))
         THEN With(record, Head(rels).rel,
                   Related(Head(rels), record, st, Attach(q, Head(rels).rel)))
         ELSE record,
         st, q)

\* _applyRelations: attaches the relations named in select or include.
ApplyRelations(e, records, st, q) ==
  [i \in 1..Len(records) |-> AttachRelations(Relations(e), records[i], st, q)]

\* _applySelectClause: without a select the records are returned as they are;
\* with one, every field the select does not name is deleted.
ApplySelectClause(e, records, q) ==
  IF ~Has(q, "select") THEN records
  ELSE [i \in 1..Len(records) |->
          Without(records[i], AllFields(e) \ DOMAIN q.select)]

\* _preprocessListFields: Post sets its missing list fields to the empty list.
PreprocessListFields(e, records) ==
  IF e # "Post" THEN records
  ELSE [i \in 1..Len(records) |->
          LET r == records[i]
              t == IF Has(r, "tags") THEN r ELSE With(r, "tags", <<>>)
          IN IF Has(t, "numberArr") THEN t ELSE With(t, "numberArr", <<>>)]

\* _applyOrderByClause on the filtered records t: the keys of every record
\* under every clause, then the sort.
ApplyOrderByClause(e, t, q, st) ==
  IF ~Has(q, "orderBy") \/ t.err # None \/ t.rows = <<>> THEN t
  ELSE SortByKeys(e, t, q.orderBy,
         [i \in 1..Len(t.rows) |->
            [record |-> t.rows[i],
             keys |-> [j \in 1..Len(q.orderBy) |->
                         OrderByKey(e, t.rows[i], q.orderBy[j], st)]]])

\* findMany with its trace: scan in key order, filter, order, attach
\* relations, project.
Query(e, q, st) ==
  Bind(ApplyOrderByClause(e,
         ApplyWhereClause(e, GetAll(st, e), IF Has(q, "where") THEN q.where ELSE EmptyRec, st),
         q, st),
       LAMBDA t :
         [t EXCEPT !.rows = PreprocessListFields(e,
                              ApplySelectClause(e, ApplyRelations(e, @, st, q), q)),
                   !.reads = @ \cup {e} \cup AttachReads(e, t.rows, q)])

\* A faulty LocateUnique: the userId index of Profile is never consulted.
LocateUniqueByIdOnly(e, w, st) ==
  IF Has(w, "id") /\ (IF e = "Comment" THEN TruthyStr(w.id) ELSE TruthyNum(w.id))
  THEN Get(st, e, w.id)
  ELSE RUndef

\* The row the unique selector locates: by id when where.id is truthy, for
\* Profile else by userId when where.userId is truthy, else none.
LocateUnique(e, w, st) ==
  IF Has(w, "id") /\ (IF e = "Comment" THEN TruthyStr(w.id) ELSE TruthyNum(w.id))
  THEN Get(st, e, w.id)
  ELSE IF e = "Profile" /\ Has(w, "userId") /\ TruthyNum(w.userId)
  THEN GetByUserId(st, w.userId)
  ELSE RUndef

\* findUnique: null when no row is located; otherwise element 0 of the
\* filtered, attached and projected one-record list, which is undefined when
\* the row does not pass the where clause (a TypeError for Post, whose
\* _preprocessListFields writes to it).
FindUnique(e, q, st) ==
  LET record == LocateUnique(e, q.where, st)
  IN IF ~IsRec(record) THEN RNull
     ELSE Bind(ApplySelectClause(e,
                 ApplyRelations(e, ApplyWhereClause(e, <<record.v>>, q.where, st).rows, st, q), q),
               LAMBDA rs :
                 IF rs = <<>>
                 THEN (IF e = "Post" THEN [k |-> "throw", e |-> TypeError] ELSE RUndef)
                 ELSE RRec(PreprocessListFields(e, rs)[1]))

Eval(call, st) ==
  CASE call.op = "findMany" -> Query(call.e, call.q, st)
    [] call.op = "findUnique" -> FindUnique(call.e, call.q, st)
    [] call.op = "where" -> ApplyWhereClause(call.e, call.records, call.q, st)
    [] call.op = "key" -> OrderByKey(call.e, call.record, call.q, st)

\* findMany: the rows of the query.
FindMany(e, q, st) == Eval([op |-> "findMany", e |-> e, q |-> q], st).rows

\* A faulty findFirst: element 0 of findMany as it is, undefined when there
\* is none.
FindFirstWithoutNull(e, q, st) ==
  Bind(FindMany(e, q, st), LAMBDA rs : IF rs = <<>> THEN RUndef ELSE RRec(rs[1]))

\* findFirst: (await this.findMany(query, tx))[0] ?? null
FindFirst(e, q, st) ==
  Bind(FindMany(e, q, st), LAMBDA rs : IF rs = <<>> THEN RNull ELSE RRec(rs[1]))

\* count without a field selection: the length of findMany({ where }).
Count(e, q, st) ==
  Len(FindMany(e, IF Has(q, "where") THEN [where |-> q.where] ELSE EmptyRec, st))

(***************************************************************************)
(* Calls between the model classes.  this.client.<model>.<method>(query,   *)
(* tx) is Exec of the call record on the context of the transaction.       *)
(*                                                                         *)
(* The key scan of _fillDefaults reads the table as it is when the scan    *)
(* request is issued.  The creates started together by Promise.all run in  *)
(* lock-step, so the scan of each of them is issued before any of them     *)
(* adds its row: such a create scans the table as it was when Promise.all  *)
(* started (scan.k = "base"); any other create scans the current table.    *)
(***************************************************************************)
ScanCurrent == [k |-> "cur"]
ScanBase(st) == [k |-> "base", st |-> st]
ScanStore(scan, c) == IF scan.k = "base" THEN scan.st ELSE c.st

Call(op, e, q) == [op |-> op, e |-> e, q |-> q, scan |-> ScanCurrent]

RECURSIVE Exec(_, _)

\* findFirstOrThrow: aborts and raises not-found when findFirst returns null.
FindFirstOrThrow(e, q, c) ==
  LET record == Exec(Call("findFirst", e, q), c).ret
  IN IF ~IsRec(record) THEN AbortThrow(c, NotFound) ELSE Return(c, record)

\* findUniqueOrThrow: aborts and raises not-found when findUnique returns
\* null or undefined; an exception of findUnique propagates without abort.
FindUniqueOrThrow(e, q, c) ==
  LET record == Exec(Call("findUnique", e, q), c).ret
  IN IF record.k = "throw" THEN Throw(c, record.e)
     ELSE IF ~IsRec(record) THEN AbortThrow(c, NotFound)
     ELSE Return(c, record)

(***************************************************************************)
(* update and delete.                                                      *)
(***************************************************************************)
\* IDBUtils.handleStringUpdateField / handleIntUpdateField: a plain value
\* in the payload replaces the field's value.
PatchFields(e, record, data) ==
  LET fs == (StringFields(e) \cup NumberFields(e)) \cap DOMAIN data
  IN [f \in (DOMAIN record) \cup fs |-> IF f \in fs THEN data[f] ELSE record[f]]

\* update: not-found (with abort) only when findUnique returns null; an
\* undefined record passes the null test and the patch or the put fails on it.
Update(e, q, c) ==
  LET record == Exec(Call("findUnique", e, [where |-> q.where]), c).ret
  IN IF record.k = "throw" THEN Throw(c, record.e)
     ELSE IF record.k = "null" THEN AbortThrow(c, NotFound)
     ELSE IF record.k = "undefined"
     THEN Throw(c, IF (StringFields(e) \cup NumberFields(e)) \cap DOMAIN q.data # {}
                   THEN TypeError ELSE DataError)
     ELSE LET patched == PatchFields(e, record.v, q.data)
              c1 == Put(c, e, patched)
          IN IF ~Ok(c1) THEN c1
             ELSE Return(c1, Exec(Call("findUnique", e, With(q, "where", [id |-> patched.id])), c1).ret)

\* Promise.all(wheres.map((w) => update({ where: w, data }, tx)))
RECURSIVE UpdateAll(_, _, _, _)
UpdateAll(e, wheres, data, c) ==
  IF wheres = <<>> \/ c.aborted THEN c
  ELSE LET r == Exec(Call("update", e, [where |-> Head(wheres), data |-> data]),
                     [c EXCEPT !.err = None])
       IN UpdateAll(e, Tail(wheres), data,
                    [r EXCEPT !.err = IF c.err # None THEN c.err ELSE r.err])

\* A faulty CascadeChildren: the comments of a User are left out.
CascadeChildrenWithoutComments(e) ==
  CASE e = "User" -> <<[child |-> "Profile", fk |-> "userId"]>>
    [] e = "Post" -> <<[child |-> "Comment", fk |-> "postId"]>>
    [] OTHER -> <<>>

\* The relations whose onDelete is Cascade, by referenced entity: the child
\* entity and its foreign-key field.
CascadeChildren(e) ==
  CASE e = "User" -> <<[child |-> "Profile", fk |-> "userId"],
                       [child |-> "Comment", fk |-> "userId"]>>
    [] e = "Post" -> <<[child |-> "Comment", fk |-> "postId"]>>
    [] OTHER -> <<>>

\* The deleteMany calls of delete, in the order of the source.
RECURSIVE DeleteChildren(_, _, _)
DeleteChildren(children, record, c) ==
  IF children = <<>> \/ ~Ok(c) THEN c
  ELSE LET ch == Head(children)
           w == IF Has(record, "id") THEN (ch.fk :> record.id) ELSE EmptyRec
       IN DeleteChildren(Tail(children), record,
                         Exec(Call("deleteMany", ch.child, [where |-> w]), c))

\* delete: locate by findUnique(query); raise not-found, without aborting,
\* when nothing is returned; deleteMany the cascade children by foreign key
\* = record.id; then delete the row under [record.id].
Delete(e, q, c) ==
  LET record == Exec(Call("findUnique", e, q), c).ret
  IN IF record.k = "throw" THEN Throw(c, record.e)
     ELSE IF ~IsRec(record) THEN Throw(c, NotFound)
     ELSE LET c1 == DeleteChildren(CascadeChildren(e), record.v, c)
          IN IF ~Ok(c1) THEN c1
             ELSE IF ~Has(record.v, "id") THEN Throw(c1, DataError)
             ELSE Return(Del(c1, e, record.v.id), record)

\* for (const record of records) await this.delete({ where: { id: record.id } }, tx)
RECURSIVE DeleteEach(_, _, _)
DeleteEach(e, records, c) ==
  IF records = <<>> \/ ~Ok(c) THEN c
  ELSE DeleteEach(e, Tail(records),
                  Exec(Call("delete", e, [where |-> [id |-> Head(records).id]]), c))

\* deleteMany: delete, one after the other, every record findMany returns.
DeleteMany(e, q, c) ==
  LET f == Exec(Call("findMany", e, q), c)
      c1 == DeleteEach(e, f.ret.v, c)
  IN IF f.err # None THEN f
     ELSE IF Ok(c1) THEN Return(c1, [k |-> "count", v |-> Len(f.ret.v)]) ELSE c1

(***************************************************************************)
(* create.                                                                 *)
(*                                                                         *)
(* A nested-write payload holds, under a relation name, a record with any  *)
(* of create, connect, connectOrCreate and createMany; the payloads of     *)
(* create, connect and createMany are sequences (convertToArray of a       *)
(* single object is the one-element sequence) on a to-many relation.       *)
(***************************************************************************)
HasSub(d, rel, k) == Has(d, rel) /\ Has(d[rel], k)

\* createId()
CreateId(n) == CuidPool[n + 1]

\* if (!Array.isArray(data.f)) data.f = data.f?.set, for every list field f:
\* an array (payload [arr |-> s]) is stored as the sequence s, a wrapper
\* [set |-> s] as s, and an unset field stays undefined.
RECURSIVE UnwrapLists(_, _)
UnwrapLists(fields, data) ==
  IF fields = {} THEN data
  ELSE LET f == CHOOSE x \in fields : TRUE
           d == IF ~Has(data, f) THEN data
                ELSE IF Has(data[f], "arr") THEN With(data, f, data[f].arr)
                ELSE With(data, f, data[f].set)
       IN UnwrapLists(fields \ {f}, d)

\* _fillDefaults: the primary key when absent (largest key + 1, or a fresh
\* cuid for Comment), and the defaults of the optional scalar fields.
FillDefaults(e, data, st, n) ==
  LET d1 == IF Has(data, "id") THEN data
            ELSE IF e = "Comment" THEN With(data, "id", CreateId(n))
            ELSE With(data, "id", LastKey(st, e) + 1)
      d2 == IF e = "Profile" /\ ~Has(d1, "bio") THEN With(d1, "bio", NullStr)
            ELSE IF e = "Post" /\ ~Has(d1, "authorId") THEN With(d1, "authorId", NullInt)
            ELSE d1
  IN [data |-> UnwrapLists(ListFields(e), d2),
      cuid |-> IF e = "Comment" /\ ~Has(data, "id") THEN n + 1 ELSE n]

\* A faulty _removeNestedCreateData: the relation fields stay.
KeepNestedCreateData(e, data) == data

\* _removeNestedCreateData: a copy without the relation fields.
RemoveNestedCreateData(e, data) == Without(data, RelationFields(e))

\* createCurrentModel (create.ts): fill the defaults, strip the relations, add.
CreateCurrentModel(e, data, c, scan) ==
  LET f == FillDefaults(e, data, ScanStore(scan, c), c.cuid)
      record == RemoveNestedCreateData(e, f.data)
  IN Return(Add([c EXCEPT !.cuid = f.cuid], e, record), RRec(record))

\* applyClausesAndReturnRecords (create.ts): re-read the row, attach, project.
ApplyClausesAndReturnRecords(e, key, q, c) ==
  LET data == Get(c.st, e, key)
  IN IF ~Ok(c) THEN c
     ELSE IF ~(AttachReads(e, <<data.v>>, q) \subseteq c.scope)
     THEN Throw([c EXCEPT !.reads = @ \cup AttachReads(e, <<data.v>>, q)], StoreNotFound)
     ELSE Return([c EXCEPT !.reads = @ \cup AttachReads(e, <<data.v>>, q)],
                 RRec(PreprocessListFields(e,
                      ApplySelectClause(e, ApplyRelations(e, <<data.v>>, c.st, q), q))[1]))

\* createMany: fill, strip and add each record; no relation is resolved.
RECURSIVE AddEach(_, _, _)
AddEach(e, datas, c) ==
  IF datas = <<>> \/ ~Ok(c) THEN c
  ELSE AddEach(e, Tail(datas), CreateCurrentModel(e, Head(datas), c, ScanCurrent))

CreateMany(e, q, c) ==
  LET c1 == AddEach(e, q.data, c)
  IN IF Ok(c1) THEN Return(c1, [k |-> "count", v |-> Len(q.data)]) ELSE c1

\* createManyAndReturn: as createMany, and returns the records added, each
\* under the select of the query.
CreateManyAndReturn(e, q, c) ==
  LET c1 == AddEach(e, q.data, c)
  IN IF ~Ok(c1) THEN c1
     ELSE Return(c1, [k |-> "rows",
                      v |-> PreprocessListFields(e, ApplySelectClause(e,
                              [i \in 1..Len(q.data) |->
                                 Get(c1.st, e, c1.log[Len(c.log) + i].key).v], q))])

\* datas.map((d) => ({ ...d, [f]: v }))
MapWith(datas, f, v) == [i \in 1..Len(datas) |-> With(datas[i], f, v)]

\* The payload the parent hands to Comment.create for one element of a
\* nested comments.create: the parent is connected through the relation when
\* the element names its other relation and not that relation's foreign key,
\* through the foreign key when the element gives the other foreign key, and
\* the element is skipped otherwise.
CommentElem(elem, otherRel, otherFk, parentRel, parentFk, key) ==
  IF Has(elem, otherRel) /\ ~Has(elem, otherFk)
  THEN RRec(With(elem, parentRel, [connect |-> [id |-> key]]))
  ELSE IF Has(elem, otherFk) THEN RRec(With(elem, parentFk, key))
  ELSE RNull

\* createDependencies (create.ts) for one owning relation: nested create or
\* connect gives the foreign key, connectOrCreate raises; without the
\* relation, a supplied foreign key is validated by findUniqueOrThrow.
ResolveOwning(d, rel, fkField, target, c, scan) ==
  IF ~Ok(c) THEN [c |-> c, d |-> d]
  ELSE IF Has(d, rel)
  THEN LET r == d[rel]
           c1 == IF Has(r, "create")
                 THEN Exec([op |-> "create", e |-> target, q |-> [data |-> r.create],
                            scan |-> scan], c)
                 ELSE c
           c2 == IF Ok(c1) /\ Has(r, "connect")
                 THEN Exec(Call("findUniqueOrThrow", target, [where |-> r.connect]), c1)
                 ELSE c1
           c3 == IF Ok(c2) /\ Has(r, "connectOrCreate") THEN Throw(c2, Unsupported) ELSE c2
           hasFk == Ok(c2) /\ (Has(r, "create") \/ Has(r, "connect"))
           stripped == Without(d, {rel, fkField})
       IN [c |-> c3, d |-> IF hasFk THEN With(stripped, fkField, c2.ret.v.id) ELSE stripped]
  ELSE IF Has(d, fkField) /\ d[fkField] # NullInt
  THEN [c |-> Exec(Call("findUniqueOrThrow", target, [where |-> [id |-> d[fkField]]]), c),
        d |-> d]
  ELSE [c |-> c, d |-> d]

\* for (const d of datas) await create({ data: d }, tx)
RECURSIVE CreateEach(_, _, _)
CreateEach(e, datas, c) ==
  IF datas = <<>> \/ ~Ok(c) THEN c
  ELSE CreateEach(e, Tail(datas), Exec(Call("create", e, [data |-> Head(datas)]), c))

\* await Promise.all(datas.map((d) => create({ data: d }, tx))): every branch
\* runs unless the transaction is aborted; the first error is the one raised.
RECURSIVE CreateAll(_, _, _, _)
CreateAll(e, datas, c, scan) ==
  IF datas = <<>> \/ c.aborted THEN c
  ELSE LET r == IF IsRec(Head(datas))
                THEN Exec([op |-> "create", e |-> e, q |-> [data |-> Head(datas).v],
                           scan |-> scan], [c EXCEPT !.err = None])
                ELSE c
       IN CreateAll(e, Tail(datas),
                    [r EXCEPT !.err = IF c.err # None THEN c.err ELSE r.err], scan)

\* The nested writes createDependents (create.ts) emits, in the order of the
\* generated code: relation and kind of nested write.
DependentSteps(e) ==
  CASE e = "User" ->
         <<<<"profile", "create">>, <<"profile", "connect">>, <<"profile", "connectOrCreate">>,
           <<"posts", "create">>, <<"posts", "connect">>, <<"posts", "connectOrCreate">>,
           <<"posts", "createMany">>,
           <<"comments", "create">>, <<"comments", "connect">>,
           <<"comments", "connectOrCreate">>, <<"comments", "createMany">>>>
    [] e = "Post" ->
         <<<<"comments", "create">>, <<"comments", "connect">>,
           <<"comments", "connectOrCreate">>, <<"comments", "createMany">>>>
    [] OTHER -> <<>>

\* The relation of Comment a comments.create element may name besides the parent's.
OtherSide(e) ==
  IF e = "User" THEN [rel |-> "post", fk |-> "postId", parentRel |-> "user", parentFk |-> "userId"]
  ELSE [rel |-> "user", fk |-> "userId", parentRel |-> "post", parentFk |-> "postId"]

\* One nested write of createDependents, with the parent's key as foreign key.
DependentStep(e, rel, kind, d, key, c) ==
  CASE kind = "connectOrCreate" -> Throw(c, Unsupported)
    [] rel = "profile" /\ kind = "create" ->
         Exec(Call("create", "Profile", [data |-> With(d.profile.create, "userId", key)]), c)
    [] rel = "profile" /\ kind = "connect" ->
         Exec(Call("update", "Profile", [where |-> d.profile.connect,
                                         data |-> [userId |-> key]]), c)
    [] rel = "posts" /\ kind = "create" ->
         CreateEach("Post", MapWith(d.posts.create, "author", [connect |-> [id |-> key]]), c)
    [] rel = "posts" /\ kind = "connect" ->
         UpdateAll("Post", d.posts.connect, [authorId |-> key], c)
    [] rel = "posts" /\ kind = "createMany" ->
         Exec(Call("createMany", "Post",
                   [data |-> MapWith(d.posts.createMany, "authorId", key)]), c)
    [] rel = "comments" /\ kind = "create" ->
         CreateAll("Comment",
                   [i \in 1..Len(d.comments.create) |->
                      CommentElem(d.comments.create[i], OtherSide(e).rel, OtherSide(e).fk,
                                  OtherSide(e).parentRel, OtherSide(e).parentFk, key)],
                   c, ScanBase(c.st))
    [] rel = "comments" /\ kind = "connect" ->
         UpdateAll("Comment", d.comments.connect, (OtherSide(e).parentFk :> key), c)
    [] rel = "comments" /\ kind = "createMany" ->
         Exec(Call("createMany", "Comment",
                   [data |-> MapWith(d.comments.createMany, OtherSide(e).parentFk, key)]), c)

\* createDependents (create.ts): the nested writes on the relations whose
\* foreign key is held by the other side, one after the other.
RECURSIVE CreateDependents(_, _, _, _, _)
CreateDependents(steps, e, d, key, c) ==
  IF steps = <<>> \/ ~Ok(c) THEN c
  ELSE CreateDependents(Tail(steps), e, d, key,
         IF HasSub(d, Head(steps)[1], Head(steps)[2])
         THEN DependentStep(e, Head(steps)[1], Head(steps)[2], d, key, c)
         ELSE c)

\* The relations whose foreign key the entity itself holds, in the order
\* createDependencies (create.ts) resolves them.
OwningRelations(e) ==
  CASE e = "Profile" -> <<[rel |-> "user", fk |-> "userId", target |-> "User"]>>
    [] e = "Post" -> <<[rel |-> "author", fk |-> "authorId", target |-> "User"]>>
    [] e = "Comment" -> <<[rel |-> "post", fk |-> "postId", target |-> "Post"],
                          [rel |-> "user", fk |-> "userId", target |-> "User"]>>
    [] OTHER -> <<>>

\* createDependencies (create.ts): every owning relation, one after the other.
RECURSIVE CreateDependencies(_, _, _)
CreateDependencies(rels, o, scan) ==
  IF rels = <<>> THEN o
  ELSE CreateDependencies(Tail(rels),
         ResolveOwning(o.d, Head(rels).rel, Head(rels).fk, Head(rels).target, o.c, scan),
         scan)

\* The rest of create once the row is added: the dependents, then the row is
\* read back and returned with its relations.
CreateRest(e, q, c1) ==
  IF ~Ok(c1) THEN c1
  ELSE ApplyClausesAndReturnRecords(e, c1.ret.v.id, q,
         CreateDependents(DependentSteps(e), e, q.data, c1.ret.v.id, c1))

\* The rest of create once the owning relations are resolved: add the row.
CreateAfterDependencies(e, q, o, scan) ==
  IF ~Ok(o.c) THEN o.c ELSE CreateRest(e, q, CreateCurrentModel(e, o.d, o.c, scan))

\* create: owning relations first, then the row itself, then the dependents,
\* then the row is read back and returned with its relations.
Create(e, q, c, scan) ==
  CreateAfterDependencies(e, q,
    CreateDependencies(OwningRelations(e), [c |-> c, d |-> q.data], scan), scan)

\* The filter { not: null } on a scalar field: the record has a value in it.
whereNotNull(e, record, field) ==
  /\ Has(record, field)
  /\ IF field \in StringFields(e) THEN record[field] # NullStr ELSE record[field] # NullInt

\* A faulty count: the selected fields are counted among all the rows.
CountSelectAllRows(e, q, matched, st) ==
  [f \in DOMAIN q.select |-> Cardinality(st[e])]

\* count with a field selection: for _all the number of rows findMany
\* returns for the where clause (matched); for any other key the number of
\* rows findMany returns for { where: { key: { not: null } } }.
CountSelect(e, q, matched, st) ==
  [f \in DOMAIN q.select |->
     IF f = "_all" THEN Len(matched)
     ELSE Cardinality({r \in st[e] : whereNotNull(e, r, f)})]

\* findMany and count as public operations on the context of their
\* transaction: the result of the query, or the exception it raised; a read
\* of a table the transaction was not opened over raises NotFoundError.
\* count without a selection runs findMany({ where }) and returns the number
\* of rows; with one it returns a number per selected key.
Read(op, e, q, c) ==
  Bind(Eval([op |-> "findMany", e |-> e,
             q |-> IF op # "count" THEN q
                   ELSE IF Has(q, "select") /\ ~Has(q.select, "_all") THEN EmptyRec
                   ELSE Without(q, DOMAIN q \ {"where"})], c.st),
       LAMBDA r :
         [c EXCEPT !.reads = @ \cup r.reads, !.own = r.own,
                   !.err = IF r.err # None THEN r.err
                           ELSE IF ~(r.reads \subseteq c.scope) THEN StoreNotFound ELSE None,
                   !.ret = IF r.err # None \/ ~(r.reads \subseteq c.scope) THEN RNull
                           ELSE IF op = "count" /\ Has(q, "select")
                           THEN [k |-> "counts", v |-> CountSelect(e, q, r.rows, c.st)]
                           ELSE IF op = "count" THEN [k |-> "count", v |-> Len(r.rows)]
                           ELSE [k |-> "rows", v |-> r.rows]])

\* this.client.<model>.<method>(query, tx): the table of the model is
\* touched through the transaction.
Exec(call, c) ==
  LET d == [c EXCEPT !.reads = @ \cup {call.e}]
  IN IF call.e \notin c.scope THEN Throw(d, StoreNotFound)
     ELSE CASE call.op = "create" -> Create(call.e, call.q, d, call.scan)
            [] call.op = "createMany" -> CreateMany(call.e, call.q, d)
            [] call.op = "createManyAndReturn" -> CreateManyAndReturn(call.e, call.q, d)
            [] call.op = "update" -> Update(call.e, call.q, d)
            [] call.op = "delete" -> Delete(call.e, call.q, d)
            [] call.op = "deleteMany" -> DeleteMany(call.e, call.q, d)
            [] call.op = "findFirstOrThrow" -> FindFirstOrThrow(call.e, call.q, d)
            [] call.op = "findUniqueOrThrow" -> FindUniqueOrThrow(call.e, call.q, d)
            [] call.op = "findUnique" -> Return(d, FindUnique(call.e, call.q, d.st))
            [] call.op = "findFirst" -> Return(d, FindFirst(call.e, call.q, d.st))
            [] call.op \in {"findMany", "count"} -> Read(call.op, call.e, call.q, d)

(***************************************************************************)
(* Inputs of the public operations.                                        *)
(***************************************************************************)
Keys == 0..MaxId

PostLeaf == [title |-> "p"]
UserLeaf == [name |-> "John"]
ProfileLeaf == [bio |-> "X"]
CommentWithPost == [text |-> "t", post |-> [create |-> PostLeaf]]
CommentWithUser == [text |-> "t", user |-> [create |-> UserLeaf]]

\* A connectOrCreate nested write: a unique selector and the payload to create.
ConnectOrCreate(w, leaf) == [connectOrCreate |-> [where |-> w, create |-> leaf]]

\* Payloads of User.create: the key is auto-assigned or given as 0.
UserData ==
  {UserLeaf, With(UserLeaf, "id", 0)}
    \cup {With(u, "profile", [create |-> ProfileLeaf]) : u \in {UserLeaf, With(UserLeaf, "id", 0)}}
    \cup {With(u, "posts", [create |-> <<PostLeaf>>]) : u \in {UserLeaf, With(UserLeaf, "id", 0)}}
    \cup {With(UserLeaf, "profile", p) :
            p \in {ConnectOrCreate([id |-> 1], ProfileLeaf)}
                  \cup {[connect |-> [id |-> k]] : k \in Keys}}
    \cup {With(UserLeaf, "posts", p) :
            p \in {[create |-> <<PostLeaf, PostLeaf>>], [createMany |-> <<PostLeaf>>],
                   ConnectOrCreate([id |-> 1], PostLeaf)}
                  \cup {[connect |-> <<[id |-> k]>>] : k \in Keys}}
    \cup {With(UserLeaf, "comments", p) :
            p \in {[create |-> <<CommentWithPost>>],
                   [create |-> <<CommentWithPost, CommentWithPost>>],
                   ConnectOrCreate([id |-> "c1"], CommentWithPost)}
                  \cup {[create |-> <<[text |-> "t", postId |-> k]>>] : k \in Keys}}
    \cup {[name |-> "John", profile |-> [create |-> ProfileLeaf],
           posts |-> [create |-> <<PostLeaf>>]],
          [name |-> "John", profile |-> [create |-> ProfileLeaf],
           comments |-> [create |-> <<CommentWithPost>>]]}

ProfileData ==
  {[bio |-> "X", userId |-> k] : k \in Keys}
    \cup {[id |-> 0, bio |-> "X", userId |-> k] : k \in Keys \ {0}}
    \cup {[bio |-> "X", user |-> u] :
            u \in {[create |-> UserLeaf], [create |-> With(UserLeaf, "id", 0)],
                   ConnectOrCreate([id |-> 1], UserLeaf)}
                  \cup {[connect |-> [id |-> k]] : k \in Keys}}

PostData ==
  {PostLeaf, With(PostLeaf, "id", 0)}
    \cup {With(PostLeaf, "authorId", k) : k \in Keys}
    \cup {With(PostLeaf, "author", u) :
            u \in {[create |-> UserLeaf], ConnectOrCreate([id |-> 1], UserLeaf)}
                  \cup {[connect |-> [id |-> k]] : k \in Keys}}
    \cup {With(PostLeaf, "comments", p) :
            p \in {[create |-> <<CommentWithUser>>],
                   [create |-> <<CommentWithUser, CommentWithUser>>],
                   ConnectOrCreate([id |-> "c1"], CommentWithUser)}
                  \cup {[create |-> <<[text |-> "t", userId |-> k]>>] : k \in Keys}}

CommentData ==
  {[text |-> "t", postId |-> k, userId |-> k] : k \in Keys}
    \cup {[text |-> "t", post |-> [connect |-> [id |-> k]], user |-> [connect |-> [id |-> k]]] :
            k \in Keys}
    \cup {[text |-> "t", post |-> [create |-> PostLeaf], user |-> [create |-> UserLeaf]],
          [text |-> "t", post |-> ConnectOrCreate([id |-> 1], PostLeaf),
           user |-> [create |-> UserLeaf]],
          [text |-> "t", post |-> [create |-> PostLeaf],
           user |-> ConnectOrCreate([id |-> 1], UserLeaf)]}

CreateData(e) ==
  CASE e = "User" -> UserData
    [] e = "Profile" -> ProfileData
    [] e = "Post" -> PostData
    [] e = "Comment" -> CommentData

\* Queries of the creates that populate the store for the read path: a
\* payload, for some with an include for the return value.  The select and
\* include arguments of the model are flat: a relation maps to the empty
\* nested query (true).
SeedQueries(e) ==
  CASE e = "User" ->
         {[data |-> d] :
            d \in {UserLeaf, [name |-> "Jane"],
                   [name |-> "John", profile |-> [create |-> ProfileLeaf]],
                   [name |-> "Jane", profile |-> [create |-> [bio |-> "Y"]]],
                   [name |-> "John", posts |-> [create |-> <<[title |-> "q"], PostLeaf>>]],
                   [name |-> "John", comments |-> [create |-> <<CommentWithPost>>]]}}
           \cup {[data |-> With(UserLeaf, "profile", [create |-> ProfileLeaf]),
                  include |-> [profile |-> EmptyRec]],
                 [data |-> UserLeaf, include |-> [posts |-> EmptyRec]]}
    [] e = "Profile" -> {[data |-> [bio |-> "X", user |-> [create |-> UserLeaf]]]}
    [] e = "Post" ->
         {[data |-> d] :
            d \in {PostLeaf, [title |-> "q", author |-> [create |-> UserLeaf]],
                   [title |-> "p", comments |-> [create |-> <<CommentWithUser, CommentWithUser>>]]}}
           \cup {[data |-> PostLeaf, include |-> [comments |-> EmptyRec]]}
    [] e = "Comment" ->
         {[data |-> [text |-> "t", post |-> [create |-> PostLeaf], user |-> [create |-> UserLeaf]]]}

\* Where clauses of findMany and count.
WhereClauses(e) ==
  CASE e = "User" ->
         {[posts |-> (k :> P)] : k \in {"every", "some", "none"}, P \in {EmptyRec, [title |-> "q"]}}
           \cup {[profile |-> c] :
                   c \in {NullClause, [is |-> NullClause], [isNot |-> NullClause],
                          [is |-> [bio |-> "X"]], [isNot |-> [bio |-> "X"]], [bio |-> "X"]}}
           \cup {[NOT |-> [name |-> "Jane"]], [OR |-> [profile |-> [is |-> [bio |-> "X"]]]],
                 [comments |-> [some |-> [post |-> [is |-> [title |-> "p"]]]]]}
    [] e = "Profile" ->
         {[user |-> c] : c \in {[is |-> [name |-> "John"]], [isNot |-> [name |-> "John"]]}}
    [] e = "Post" ->
         {[comments |-> (k :> [text |-> "t"])] : k \in {"every", "some", "none"}}
           \cup {[author |-> c] :
                   c \in {NullClause, [is |-> [name |-> "John"]], [isNot |-> [name |-> "John"]],
                          [name |-> "John"]}}
           \cup {[AND |-> [title |-> "q"]]}
    [] e = "Comment" ->
         {[post |-> [author |-> [name |-> "John"]]], [user |-> [is |-> [name |-> "John"]]]}

\* orderBy lists of findMany.
OrderBys(e) ==
  CASE e = "User" ->
         {<<[name |-> "asc"]>>, <<[name |-> "desc"]>>, <<[name |-> "asc"], [id |-> "desc"]>>,
          <<[name |-> "desc"], [id |-> "asc"]>>, <<[profile |-> [bio |-> "asc"]]>>,
          <<[posts |-> ("_count" :> "desc")], [id |-> "asc"]>>}
    [] e = "Profile" -> {<<[user |-> [name |-> "asc"]]>>}
    [] e = "Post" ->
         {<<[title |-> "asc"]>>, <<[title |-> "desc"]>>, <<[title |-> "asc"], [id |-> "desc"]>>,
          <<[title |-> "desc"], [id |-> "asc"]>>, <<[author |-> [name |-> "asc"]]>>,
          <<[title |-> "asc"], [authorId |-> "desc"]>>,
          <<[comments |-> ("_count" :> "asc")], [id |-> "desc"]>>}
    [] e = "Comment" ->
         {<<[user |-> [posts |-> ("_count" :> "asc")]]>>, <<[post |-> [title |-> "desc"]]>>,
          <<[text |-> "asc"], [id |-> "desc"]>>, <<[text |-> "desc"], [id |-> "asc"]>>}

\* Queries of findMany: all of them without a handle, a few with the
\* caller's handle.
FindQueries(e, mode) ==
  IF mode = "caller"
  THEN {EmptyRec}
         \cup (IF e = "User"
               THEN {[where |-> [posts |-> [some |-> EmptyRec]]],
                     [where |-> [profile |-> NullClause]],
                     [orderBy |-> <<[profile |-> [bio |-> "asc"]]>>],
                     [include |-> [posts |-> EmptyRec]]}
               ELSE {})
  ELSE {EmptyRec}
         \cup {[where |-> w] : w \in WhereClauses(e)}
         \cup {[orderBy |-> o] : o \in OrderBys(e)}
         \cup {[include |-> (r :> EmptyRec)] : r \in RelationFields(e)}
         \cup (IF e = "Post" THEN {[select |-> [id |-> EmptyRec, comments |-> EmptyRec]]}
               ELSE IF e = "User" THEN {[select |-> [id |-> EmptyRec, posts |-> EmptyRec]]}
               ELSE {})

\* Queries of count.
CountQueries(e, mode) ==
  IF mode = "caller" THEN (IF e = "User" THEN {[where |-> [profile |-> [is |-> [bio |-> "X"]]]]} ELSE {})
  ELSE {EmptyRec}
         \cup (CASE e = "User" -> {[where |-> [profile |-> [is |-> [bio |-> "X"]]]],
                                   [where |-> [posts |-> [some |-> EmptyRec]]]}
                 [] e = "Post" -> {[where |-> [author |-> [is |-> [name |-> "John"]]]]}
                 [] OTHER -> {})

\* Unique selectors: a key, or a key with a further condition on a scalar field.
KeysOf(e) == IF e = "Comment" THEN {CuidPool[k + 1] : k \in Keys} ELSE Keys

UniqueWhere(e) ==
  {[id |-> k] : k \in KeysOf(e)}
    \cup (CASE e = "User" -> {[id |-> k, name |-> "Jane"] : k \in Keys}
            [] e = "Post" -> {[id |-> k, title |-> "q"] : k \in Keys}
            [] OTHER -> {})

UpdateData(e) ==
  CASE e = "User" -> {[name |-> "Jane"]}
    [] e = "Profile" -> {[bio |-> "Y"]}
    [] e = "Post" -> {[title |-> "q"]}
    [] e = "Comment" -> {[text |-> "u"]}

(***************************************************************************)
(* The state machine.  db is the committed store, tx the readwrite         *)
(* transaction a caller holds open over all tables (its view of the store  *)
(* and whether it was aborted), cuid the number of cuids generated, calls  *)
(* the number of public calls made, born the successful top-level creates  *)
(* (entity, key of the new row, payload), last the record of the last      *)
(* call.                                                                   *)
(***************************************************************************)
NoTx == [active |-> FALSE, st |-> EmptyStore, aborted |-> FALSE]

NoCall == [op |-> "none", e |-> "none", q |-> EmptyRec, mode |-> "own", err |-> None,
           aborted |-> FALSE, pre |-> EmptyStore, post |-> EmptyStore, log |-> <<>>,
           ret |-> RNull, scope |-> {}, reads |-> {}, own |-> {}, events |-> <<>>]

Init ==
  /\ db = EmptyStore
  /\ tx = NoTx
  /\ cuid = 0
  /\ calls = 0
  /\ born = {}
  /\ last = NoCall
  /\ client = [instance |-> 0, made |-> 0, opened |-> 0, engines |-> 0,
               pc |-> [p \in 1..MaxCallers |-> "idle"],
               mine |-> [p \in 1..MaxCallers |-> 0],
               got |-> [p \in 1..MaxCallers |-> 0]]

Modes == {"own", "caller"}

\* A call without a transaction handle opens its own transaction on the
\* committed store; a call with the caller's handle runs on that transaction.
CanStart(mode) ==
  /\ calls < MaxCalls
  /\ IF mode = "own" THEN ~tx.active ELSE tx.active /\ ~tx.aborted

StartCtx(mode) == IF mode = "own" THEN Ctx(db, cuid) ELSE Ctx(tx.st, cuid)

\* The tables the transaction of a call without a handle is opened over.
Scope(op, e, q) ==
  CASE op = "create" -> NeededStoresForCreate(e, q.data)
    [] op \in {"count", "createMany", "createManyAndReturn"} -> {e}
    [] op \in {"delete", "deleteMany"} ->
         NeededStoresForFind(e, q)
           \cup (CASE e = "User" -> {"Profile", "Comment"}
                    [] e = "Post" -> {"Comment"}
                    [] OTHER -> {})
    [] OTHER -> NeededStoresForFind(e, q)

\* The context a public call starts on.
Open(op, e, q, mode) ==
  [StartCtx(mode) EXCEPT !.scope = IF mode = "own" THEN Scope(op, e, q) ELSE Entities]

\* The record of a call that ended on context r.
CallRecord(op, e, q, mode, r) ==
  [op |-> op, e |-> e, q |-> q, mode |-> mode, err |-> r.err,
   aborted |-> r.aborted, pre |-> StartCtx(mode).st, post |-> r.st,
   log |-> r.log, ret |-> r.ret, scope |-> r.scope, reads |-> r.reads,
   own |-> r.own, events |-> r.events]

\* The end of a call: its own transaction commits what it wrote unless it
\* was aborted (an exception alone does not abort it); the caller's
\* transaction stays open.
Finish(op, e, q, mode, r) ==
  /\ cuid' = r.cuid
  /\ calls' = calls + 1
  /\ born' = IF op = "create" /\ Ok(r)
             THEN born \cup {[e |-> e, id |-> r.ret.v.id, data |-> q.data]}
             ELSE born
  /\ IF mode = "own"
     THEN /\ db' = IF r.aborted THEN db ELSE r.st
          /\ tx' = tx
     ELSE /\ db' = db
          /\ tx' = [tx EXCEPT !.st = r.st, !.aborted = r.aborted]
  /\ last' = CallRecord(op, e, q, mode, r)
  /\ UNCHANGED client

\* A public call, from its start to its end.
Op(op, e, q, mode) ==
  /\ CanStart(mode)
  /\ Finish(op, e, q, mode, Exec(Call(op, e, q), Open(op, e, q, mode)))

CreateOp(e, q, mode) == Op("create", e, q, mode)

UpdateOp(e, w, d, mode) == Op("update", e, [where |-> w, data |-> d], mode)

DeleteOp(e, w, mode) == Op("delete", e, [where |-> w], mode)

FindFirstOrThrowOp(e, w, mode) == Op("findFirstOrThrow", e, [where |-> w], mode)

FindUniqueOrThrowOp(e, w, mode) == Op("findUniqueOrThrow", e, [where |-> w], mode)

\* A public findMany or count: it writes nothing and aborts nothing, so it
\* leaves the store and the caller's transaction as they are.  A read right
\* after a read reaches the state the second read reaches on its own, so
\* only reads that follow another step are explored.
ReadOp(op, e, q, mode) ==
  /\ last.op \notin {"findMany", "count"}
  /\ IF mode = "own" THEN ~tx.active ELSE tx.active /\ ~tx.aborted
  /\ last' = CallRecord(op, e, q, mode, Exec(Call(op, e, q), Open(op, e, q, mode)))
  /\ UNCHANGED <<db, tx, cuid, calls, born, client>>

FindManyOp(e, q, mode) == ReadOp("findMany", e, q, mode)

CountOp(e, q, mode) == ReadOp("count", e, q, mode)

\* The caller opens a readwrite transaction over all tables.
TxBegin ==
  /\ ~tx.active
  /\ calls < MaxCalls
  /\ tx' = [active |-> TRUE, st |-> db, aborted |-> FALSE]
  /\ last' = [NoCall EXCEPT !.op = "begin"]
  /\ UNCHANGED <<db, cuid, calls, born, client>>

\* The caller's transaction completes: it commits unless it was aborted.
TxEnd ==
  /\ tx.active
  /\ db' = IF tx.aborted THEN db ELSE tx.st
  /\ tx' = NoTx
  /\ last' = [NoCall EXCEPT !.op = "end"]
  /\ UNCHANGED <<cuid, calls, born, client>>

Next ==
  \/ \E e \in Entities, mode \in Modes : \E d \in CreateData(e) : CreateOp(e, [data |-> d], mode)
  \/ \E e \in Entities, mode \in Modes : \E w \in UniqueWhere(e), d \in UpdateData(e) :
       UpdateOp(e, w, d, mode)
  \/ \E e \in Entities, mode \in Modes : \E w \in UniqueWhere(e) : DeleteOp(e, w, mode)
  \/ \E e \in Entities, mode \in Modes : \E w \in UniqueWhere(e) : FindFirstOrThrowOp(e, w, mode)
  \/ \E e \in Entities, mode \in Modes : \E w \in UniqueWhere(e) : FindUniqueOrThrowOp(e, w, mode)
  \/ TxBegin
  \/ TxEnd

Spec == Init /\ [][Next]_vars

\* The read path: creates without a handle populate the store, findMany and
\* count query it, without a handle or on the caller's transaction.
ReadNext ==
  \/ \E e \in Entities : \E q \in SeedQueries(e) : CreateOp(e, q, "own")
  \/ \E e \in Entities, mode \in Modes : \E q \in FindQueries(e, mode) : FindManyOp(e, q, mode)
  \/ \E e \in Entities, mode \in Modes : \E q \in CountQueries(e, mode) : CountOp(e, q, mode)
  \/ TxBegin
  \/ TxEnd

ReadSpec == Init /\ [][ReadNext]_vars

\* Queries of the bulk operations and of the updates that name the primary
\* key, with the creates that populate the store for them.
BulkQueries(op, e) ==
  CASE op = "create" ->
         (CASE e = "User" ->
                 {[data |-> UserLeaf], [data |-> With(UserLeaf, "id", 0)],
                  [data |-> [name |-> "Jane", profile |-> [create |-> ProfileLeaf],
                             posts |-> [create |-> <<PostLeaf>>]],
                   include |-> [profile |-> EmptyRec]]}
            [] e = "Post" ->
                 {[data |-> PostLeaf],
                  [data |-> [title |-> "q", comments |-> [create |-> <<CommentWithUser>>]]],
                  [data |-> [title |-> "p", tags |-> [set |-> <<"a">>],
                             numberArr |-> [arr |-> <<1>>]]]}
            [] e = "Profile" -> {[data |-> [userId |-> 1]]}
            [] OTHER -> {})
    [] op = "update" ->
         (CASE e = "User" ->
                 {[where |-> [id |-> 1], data |-> [id |-> 0]],
                  [where |-> [id |-> 1], data |-> [id |-> 2]],
                  [where |-> [id |-> 1], data |-> [name |-> "Jane"],
                   include |-> [posts |-> EmptyRec]]}
            [] e = "Post" -> {[where |-> [id |-> 1], data |-> [id |-> 2, title |-> "q"]]}
            [] OTHER -> {})
    [] op \in {"createMany", "createManyAndReturn"} ->
         (CASE e = "User" ->
                 {[data |-> <<UserLeaf, [name |-> "Jane"]>>],
                  [data |-> <<With(UserLeaf, "id", 0), UserLeaf>>],
                  [data |-> <<[name |-> "Jane", posts |-> [create |-> <<PostLeaf>>]]>>]}
            [] e = "Post" -> {[data |-> <<PostLeaf, PostLeaf>>]}
            [] e = "Profile" -> {[data |-> <<[bio |-> "X", userId |-> 1]>>]}
            [] e = "Comment" -> {[data |-> <<[text |-> "t", postId |-> 1, userId |-> 1]>>]})
    [] op = "delete" ->
         (CASE e = "User" -> {[where |-> [id |-> 1]],
                              [where |-> [id |-> 1], select |-> [name |-> EmptyRec]]}
            [] e = "Post" -> {[where |-> [id |-> 1], select |-> [id |-> EmptyRec]],
                              [where |-> [id |-> 1], select |-> [title |-> EmptyRec]]}
            [] OTHER -> {})
    [] op = "deleteMany" ->
         (CASE e = "User" -> {EmptyRec, [where |-> [name |-> "John"]]}
            [] e = "Post" -> {EmptyRec, [where |-> [title |-> "p"]]}
            [] e = "Profile" -> {EmptyRec}
            [] e = "Comment" -> {[where |-> [text |-> "t"]]})

\* The bulk operations: creates without a handle populate the store; update,
\* createMany, createManyAndReturn and deleteMany run without a handle or on the caller's
\* transaction.
BulkNext ==
  \/ \E e \in Entities : \E q \in BulkQueries("create", e) : CreateOp(e, q, "own")
  \/ \E op \in {"update", "createMany", "createManyAndReturn", "delete", "deleteMany"},
        e \in Entities, mode \in Modes :
       \E q \in BulkQueries(op, e) : Op(op, e, q, mode)
  \/ TxBegin
  \/ TxEnd

BulkSpec == Init /\ [][BulkNext]_vars

\* Queries of the lookups, with the creates that populate the store for
\* them: unique selectors with and without a further condition, findFirst
\* and findMany with a where clause or an order, count with and without a
\* field selection.
LookupQueries(op, e) ==
  CASE op = "create" ->
         (CASE e = "User" -> {[data |-> UserLeaf], [data |-> [name |-> "Jane"]]}
            [] e = "Profile" -> {[data |-> [bio |-> "X", user |-> [create |-> UserLeaf]]],
                                 [data |-> [user |-> [create |-> UserLeaf]]]}
            [] e = "Post" -> {[data |-> PostLeaf],
                              [data |-> [title |-> "q", author |-> [create |-> UserLeaf]]]}
            [] OTHER -> {})
    [] op \in {"findUnique", "findUniqueOrThrow"} ->
         (CASE e = "User" -> {[where |-> [id |-> 1]], [where |-> [id |-> 1, name |-> "Jane"]],
                              [where |-> [id |-> 2]]}
            [] e = "Profile" -> {[where |-> [id |-> 1, bio |-> "Y"]]}
            [] e = "Post" -> {[where |-> [id |-> 1]], [where |-> [id |-> 1, title |-> "q"]]}
            [] OTHER -> {})
    [] op \in {"findFirst", "findMany"} ->
         (CASE e = "User" -> {EmptyRec, [where |-> [name |-> "Jane"]],
                              [orderBy |-> <<[name |-> "asc"]>>]}
            [] e = "Post" -> {[where |-> [title |-> "q"]], [orderBy |-> <<[title |-> "desc"]>>]}
            [] OTHER -> {EmptyRec})
    [] op = "count" ->
         (CASE e = "User" -> {EmptyRec, [where |-> [name |-> "Jane"]],
                              [where |-> [name |-> "Jane"],
                               select |-> [_all |-> EmptyRec, name |-> EmptyRec]]}
            [] e = "Profile" -> {[select |-> [_all |-> EmptyRec, bio |-> EmptyRec]],
                                 [where |-> [bio |-> "Y"], select |-> [bio |-> EmptyRec]]}
            [] e = "Post" -> {[select |-> [authorId |-> EmptyRec]],
                              [where |-> [title |-> "p"], select |-> [_all |-> EmptyRec]]}
            [] OTHER -> {})

\* The lookups: creates without a handle populate the store; findUnique,
\* findUniqueOrThrow, findFirst, findMany and count run without a handle or
\* on the caller's transaction, and what they leave is what their
\* transaction holds when they return.
LookupNext ==
  \/ \E e \in Entities : \E q \in LookupQueries("create", e) : CreateOp(e, q, "own")
  \/ \E op \in {"findUnique", "findUniqueOrThrow", "findFirst", "findMany", "count"},
        e \in Entities, mode \in Modes :
       \E q \in LookupQueries(op, e) : Op(op, e, q, mode)
  \/ TxBegin
  \/ TxEnd

LookupSpec == Init /\ [][LookupNext]_vars

(***************************************************************************)
(* createClient.  client.instance is the static field (0 when unset); a    *)
(* client object is named by the order of its construction.  Each caller   *)
(* runs createClient up to its await, and the rest after initialize has    *)
(* resolved; other callers may run in between.                             *)
(***************************************************************************)
\* createClient up to the await: with no instance yet, a new client is
\* constructed and its initialize opens the database; else the instance is
\* returned.
CreateClient(p) ==
  /\ client.pc[p] = "idle"
  /\ client' = IF client.instance = 0
               THEN [client EXCEPT !.made = @ + 1, !.opened = @ + 1,
                                   !.mine[p] = client.made + 1, !.pc[p] = "initialize"]
               ELSE [client EXCEPT !.got[p] = client.instance, !.pc[p] = "done"]
  /\ UNCHANGED <<db, tx, cuid, calls, born, last>>

\* openDB has resolved: initialize constructs the model classes, and
\* createClient stores its client in the static field and returns the field.
Initialized(p) ==
  /\ client.pc[p] = "initialize"
  /\ client' = [client EXCEPT !.engines = @ + 1, !.instance = client.mine[p],
                              !.got[p] = client.mine[p], !.pc[p] = "done"]
  /\ UNCHANGED <<db, tx, cuid, calls, born, last>>

ClientNext == \E p \in 1..MaxCallers : CreateClient(p) \/ Initialized(p)

ClientSpec == Init /\ [][ClientNext]_vars

(***************************************************************************)
(* Properties.  Each is stated on the record of the last public call:      *)
(* last.pre and last.post are the transaction's view of the store before   *)
(* and after the call, last.log the writes it issued, last.ret its result. *)
(***************************************************************************)
ScalarFields(e) == StringFields(e) \cup NumberFields(e)

\* The rows of a table that satisfy every condition of a selector.
Matching(e, w, st) == {r \in st[e] : \A f \in DOMAIN w : Has(r, f) /\ r[f] = w[f]}

\* The rows of a table whose foreign key fk is key.
Scoped(e, fk, key, st) == FindMany(e, [where |-> (fk :> key)], st)

\* C1: for every entity and every record accepted by create, with a key
\* supplied by the caller or auto-assigned and of any value, findUnique by
\* that key right after the create returns a non-null record whose scalar
\* and foreign-key fields equal those create persisted.
C1_FindUniqueAfterCreate ==
  (last.op = "create" /\ last.err = None) =>
    LET key == last.ret.v.id
        found == FindUnique(last.e, [where |-> [id |-> key]], last.post)
    IN /\ IsRec(found)
       /\ \A r \in last.post[last.e] :
            r.id = key => \A f \in ScalarFields(last.e) \cap DOMAIN r : found.v[f] = r[f]

\* The child tables whose relation to the entity is declared onDelete: Cascade
\* in schema.prisma, each with its foreign-key field.
OnDeleteCascade(e) ==
  CASE e = "User" -> {[child |-> "Profile", fk |-> "userId"], [child |-> "Comment", fk |-> "userId"]}
    [] e = "Post" -> {[child |-> "Comment", fk |-> "postId"]}
    [] OTHER -> {}

\* C2: after a delete of a parent row succeeds, findMany on every cascade
\* child table (Profile and Comment for User, Comment for Post) scoped to the
\* deleted key is empty, and every such child was deleted before the parent
\* row, whose removal is the last write of the call.
C2_CascadeDelete ==
  (last.op = "delete" /\ last.err = None) =>
    LET key == last.ret.v.id
        n == Len(last.log)
    IN /\ \A ch \in OnDeleteCascade(last.e) : Scoped(ch.child, ch.fk, key, last.post) = <<>>
       /\ n >= 1
       /\ last.log[n] = [op |-> "delete", e |-> last.e, key |-> key]
       /\ \A ch \in OnDeleteCascade(last.e) : \A row \in last.pre[ch.child] :
            row[ch.fk] = key =>
              \E j \in 1..(n - 1) :
                last.log[j] = [op |-> "delete", e |-> ch.child, key |-> row.id]

\* A User that has a profile and a comment is deleted.
C2_Witness ==
  /\ last.op = "delete" /\ last.e = "User" /\ last.err = None
  /\ \E p \in last.pre["Profile"] : p.userId = last.ret.v.id
  /\ \E c \in last.pre["Comment"] : c.userId = last.ret.v.id
  /\ db["User"] = {}

\* C3: after a User created with nested posts and a nested profile is
\* deleted, findMany(Profile) scoped to userId = the user's id and
\* findMany(Post) scoped to authorId = the user's id are both empty.
C3_DeletedUserLeavesNoProfileNoPost ==
  (/\ last.op = "delete" /\ last.e = "User" /\ last.err = None
   /\ \E b \in born : /\ b.e = "User" /\ b.id = last.ret.v.id
                      /\ HasSub(b.data, "posts", "create")
                      /\ HasSub(b.data, "profile", "create")) =>
    /\ Scoped("Profile", "userId", last.ret.v.id, last.post) = <<>>
    /\ Scoped("Post", "authorId", last.ret.v.id, last.post) = <<>>

\* C4: when a top-level create called without a transaction handle raises
\* not-found or unsupported-operation, the store afterwards equals the store
\* before the call.
C4_FailedCreateLeavesStoreUnchanged ==
  (last.op = "create" /\ last.mode = "own" /\ last.err \in {NotFound, Unsupported}) =>
    db = last.pre

\* The payload names connectOrCreate on one of the entity's relations.
NamesConnectOrCreate(e, d) == \E rel \in RelationFields(e) : HasSub(d, rel, "connectOrCreate")

\* C5: a create whose payload contains connectOrCreate on any relation raises
\* the unsupported-operation error before any record is added or modified.
C5_ConnectOrCreateRaisesBeforeAnyWrite ==
  (last.op = "create" /\ NamesConnectOrCreate(last.e, last.q.data)) =>
    /\ last.err = Unsupported
    /\ last.log = <<>>
    /\ last.post = last.pre

\* C6: a delete whose selector matches no row raises not-found and aborts the
\* transaction it runs in; the caller's transaction, when it was supplied, is
\* aborted, so that its earlier writes are rolled back.
C6_DeleteNotFoundAborts ==
  (last.op = "delete" /\ Matching(last.e, last.q.where, last.pre) = {}) =>
    /\ last.err = NotFound
    /\ last.aborted
    /\ last.mode = "caller" => tx.aborted

\* C7: update, findFirstOrThrow and findUniqueOrThrow whose selector matches
\* no row abort the transaction they run in and raise not-found, and no
\* record is modified.
C7_NotFoundAborts ==
  (/\ last.op \in {"update", "findFirstOrThrow", "findUniqueOrThrow"}
   /\ Matching(last.e, last.q.where, last.pre) = {}) =>
    /\ last.err = NotFound
    /\ last.aborted
    /\ last.post = last.pre

\* The key an owning relation of a create payload refers to: the key of its
\* connect selector, or the raw foreign key given without the relation;
\* NullInt when the payload refers to no row through it.
RefKey(d, r) ==
  IF HasSub(d, r.rel, "connect") THEN d[r.rel].connect.id
  ELSE IF ~Has(d, r.rel) /\ Has(d, r.fk) THEN d[r.fk]
  ELSE NullInt

Refs(e, d) == {r \in SeqToSet(OwningRelations(e)) : RefKey(d, r) # NullInt}

\* C8: a create whose owning relation connects a selector that matches no
\* row, or gives a raw foreign key of no existing row, fails, aborts the
\* transaction and persists nothing; when every row referred to exists, the
\* create is not rejected as not-found and the foreign key stored in the new
\* record is the target's primary key.
C8_OwningConnect ==
  (last.op = "create" /\ Refs(last.e, last.q.data) # {}) =>
    IF \E r \in Refs(last.e, last.q.data) :
         Matching(r.target, [id |-> RefKey(last.q.data, r)], last.pre) = {}
    THEN /\ last.err # None
         /\ last.aborted
         /\ last.mode = "own" => db = last.pre
    ELSE /\ last.err # NotFound
         /\ last.err = None =>
              \A r \in Refs(last.e, last.q.data) : \A row \in last.post[last.e] :
                row.id = last.ret.v.id => row[r.fk] = RefKey(last.q.data, r)

\* The to-many relations of an entity: the child entity and its foreign key.
ToMany(e) == {r \in SeqToSet(Relations(e)) : r.many}

\* A child payload that refers to no existing row: scalar fields, and
\* relations given by a nested create.
SelfContained(child) ==
  \A f \in DOMAIN child :
    \/ f \in {"title", "text"}
    \/ f \in {"post", "user", "author"} /\ DOMAIN child[f] = {"create"}

\* A create payload whose nested writes are creates of self-contained
\* children, with a primary key that is free when it is supplied.
PlainNestedCreate(e, d, st) ==
  /\ \E r \in ToMany(e) : HasSub(d, r.rel, "create")
  /\ \A rel \in RelationFields(e) \cap DOMAIN d : DOMAIN d[rel] = {"create"}
  /\ \A r \in ToMany(e) : HasSub(d, r.rel, "create") =>
       \A i \in 1..Len(d[r.rel].create) : SelfContained(d[r.rel].create[i])
  /\ Has(d, "id") => Matching(e, [id |-> d.id], st) = {}

\* C9: every create with a nested to-many create of n children adds exactly
\* n child rows, each with its foreign key equal to the parent's new primary
\* key, so that count on the child entity scoped to the parent key is n.
C9_NestedToManyCreate ==
  (last.op = "create" /\ PlainNestedCreate(last.e, last.q.data, last.pre)) =>
    /\ last.err = None
    /\ \A r \in ToMany(last.e) : HasSub(last.q.data, r.rel, "create") =>
         LET n == Len(last.q.data[r.rel].create)
             added == last.post[r.target] \ last.pre[r.target]
         IN /\ Cardinality({row \in added : row[r.to] = last.ret.v.id}) = n
            /\ Count(r.target, [where |-> (r.to :> last.ret.v.id)], last.post) = n

\* C10: after the create of a User with a nested profile create,
\* findMany(User, include profile) returns that user exactly once, with a
\* non-null profile whose bio is the bio supplied and whose userId is the
\* user's id.
C10_IncludeProfileAfterNestedCreate ==
  (/\ last.op = "create" /\ last.e = "User" /\ last.err = None
   /\ HasSub(last.q.data, "profile", "create")) =>
    LET key == last.ret.v.id
        users == FindMany("User", [include |-> [profile |-> EmptyRec]], last.post)
        mine == SelectSeq(users, LAMBDA u : u.id = key)
    IN /\ Len(mine) = 1
       /\ IsRec(mine[1].profile)
       /\ mine[1].profile.v.bio = last.q.data.profile.create.bio
       /\ mine[1].profile.v.userId = key

\* A second User is created with a nested profile.
C10_Witness ==
  /\ last.op = "create" /\ last.e = "User" /\ last.err = None
  /\ HasSub(last.q.data, "profile", "create")
  /\ Cardinality(db["User"]) = 2
  /\ \E p \in db["Profile"] : p.userId = last.ret.v.id /\ p.bio = "X"


\* C11: a successful create of a Profile with a nested user create adds the
\* User row first and then the Profile row, in the one transaction of the
\* call, with the Profile's userId equal to the key assigned to the User row;
\* findMany(Profile, include user) then returns the Profile with that User
\* row attached.
C11_OwningNestedCreate ==
  (/\ last.op = "create" /\ last.e = "Profile" /\ last.err = None
   /\ HasSub(last.q.data, "user", "create")) =>
    LET key == last.ret.v.id
        profiles == FindMany("Profile", [include |-> [user |-> EmptyRec]], last.post)
        mine == SelectSeq(profiles, LAMBDA p : p.id = key)
    IN /\ Len(last.log) = 2
       /\ last.log[1].op = "add" /\ last.log[1].e = "User"
       /\ last.log[2] = [op |-> "add", e |-> "Profile", key |-> key]
       /\ \A u \in last.pre["User"] : u.id # last.log[1].key
       /\ Len(mine) = 1
       /\ mine[1].userId = last.log[1].key
       /\ IsRec(mine[1].user)
       /\ mine[1].user.v.id = mine[1].userId

(***************************************************************************)
(* Properties of the read path (ReadSpec).                                 *)
(***************************************************************************)
\* The keys of the rows a findMany returned.
Returned == {x.id : x \in SeqToSet(last.ret.v)}

\* The rows of the queried table that have no row on the other side of r.
Childless(r) ==
  {p \in last.pre[last.e] : \A ch \in last.pre[r.target] : ch[r.to] # p[r.from]}

\* C12: a findMany whose where clause filters on a to-many relation with
\* every, some or none returns a parent row that has no children exactly
\* when the operator is every or none, whatever the child predicate is.
C12_ToManyFilterWithoutChildren ==
  (last.op = "findMany" /\ last.err = None /\ Has(last.q, "where")) =>
    \A r \in SeqToSet(Relations(last.e)) :
      (r.many /\ Has(last.q.where, r.rel)) =>
        \A p \in Childless(r) :
          (p.id \in Returned) <=> ~Has(last.q.where[r.rel], "some")

C12_Witness ==
  /\ last.op = "findMany" /\ last.e = "User" /\ last.err = None
  /\ last.q = [where |-> [posts |-> [every |-> [title |-> "q"]]]]
  /\ \E p \in Childless(Relations("User")[2]) : p.id \in Returned
  /\ \E p \in last.pre["User"] : p \notin Childless(Relations("User")[2])
\* C13: while an operation runs on a transaction handle, every nested
\* sub-operation it issues (relation-filter sub-queries, order-key
\* resolution, relation attachment, nested writes, cascade deletes) runs on
\* that handle: no call opens a second transaction.
C13_SubOperationsOnSameHandle == last.own = {}

\* C14: a findMany opened without a handle never reads a table outside the
\* table set the scope walk computed from its where, select and include.
C14_FindScopeCoversWhere ==
  (last.op = "findMany" /\ last.mode = "own" /\ ~Has(last.q, "orderBy")) =>
    /\ last.reads \subseteq last.scope
    /\ last.err # StoreNotFound

\* C15: for a findMany with orderBy opened without a handle, the table set
\* of the scope walk contains every table read while resolving the sort keys.
C15_FindScopeCoversOrderBy ==
  (last.op = "findMany" /\ last.mode = "own" /\ Has(last.q, "orderBy")
     /\ ~Has(last.q, "where")) =>
    /\ last.reads \subseteq last.scope
    /\ last.err # StoreNotFound

\* C16: a create opened without a handle opens a transaction over every
\* table the call touches, the tables read to attach the relations named in
\* select or include for the return value among them.
C16_CreateScopeCoversCall ==
  (last.op = "create" /\ last.mode = "own") =>
    /\ last.reads \subseteq last.scope
    /\ last.err # StoreNotFound

\* C17: a count opened without a handle opens a transaction over every
\* table read by the relation filters of its where clause, and returns the
\* number of matching rows instead of failing on a table outside it.
C17_CountScopeCoversWhere ==
  (last.op = "count" /\ last.mode = "own") =>
    /\ last.reads \subseteq last.scope
    /\ last.err # StoreNotFound


\* The position of the row with the given key in the scan of the call's table.
ScanPos(id) ==
  CHOOSE i \in 1..Len(GetAll(last.pre, last.e)) : GetAll(last.pre, last.e)[i].id = id

\* The sort key of a returned row under one clause, and the order of two
\* keys: null is below every value, values are ordered by <.
KeyOf(row, clause) == OrderByKey(last.e, row, clause, last.pre).key
KeyLess(a, b) == (a.null /\ ~b.null) \/ (~a.null /\ ~b.null /\ a.v < b.v)

\* Row x is in front of row y under the orderBy of the call: on the first
\* clause where their keys differ, x has the smaller key when the clause is
\* ascending and the larger key when it is descending.
Precedes(x, y) ==
  \E i \in 1..Len(last.q.orderBy) :
    /\ IF ResolveSortOrder(last.e, last.q.orderBy[i]) = "desc"
       THEN KeyLess(KeyOf(y, last.q.orderBy[i]), KeyOf(x, last.q.orderBy[i]))
       ELSE KeyLess(KeyOf(x, last.q.orderBy[i]), KeyOf(y, last.q.orderBy[i]))
    /\ \A j \in 1..(i - 1) : KeyOf(x, last.q.orderBy[j]) = KeyOf(y, last.q.orderBy[j])

\* A successful findMany with orderBy that returns the rows as stored.
Ordered ==
  /\ last.op = "findMany" /\ last.err = None /\ Has(last.q, "orderBy")
  /\ ~Has(last.q, "select") /\ ~Has(last.q, "include")

\* C18: the rows of an ordered findMany are compared clause by clause in
\* listed order with each clause's direction, the first differing clause
\* deciding; rows that tie on every clause keep their scan order; the result
\* is a permutation of the rows that passed the filter.
C18_StableLexicographicSort ==
  Ordered =>
    /\ \A i, j \in 1..Len(last.ret.v) :
         i < j =>
           /\ ~Precedes(last.ret.v[j], last.ret.v[i])
           /\ Precedes(last.ret.v[i], last.ret.v[j])
                \/ ScanPos(last.ret.v[i].id) < ScanPos(last.ret.v[j].id)
    /\ Cardinality(Returned) = Len(last.ret.v)
    /\ Returned \subseteq {x.id : x \in last.pre[last.e]}
    /\ ~Has(last.q, "where") => Len(last.ret.v) = Cardinality(last.pre[last.e])

\* Two rows that tie on the only clause of a descending order.
C18_Witness ==
  /\ Ordered /\ Len(last.ret.v) = 2
  /\ last.q.orderBy = <<[name |-> "desc"]>>
  /\ last.ret.v[1].name = last.ret.v[2].name

\* Two rows that tie on the first clause and are put in order by the second.
SecondClauseDecides ==
  /\ Ordered /\ Len(last.ret.v) = 2
  /\ last.q.orderBy = <<[name |-> "asc"], [id |-> "desc"]>>
  /\ last.ret.v[1].name = last.ret.v[2].name
  /\ last.ret.v[1].id > last.ret.v[2].id

\* One orderBy clause with its direction reversed.
RECURSIVE FlipClause(_, _)
FlipClause(e, clause) ==
  LET f == CHOOSE k \in DOMAIN clause : TRUE
      rs == SelectSeq(Relations(e), LAMBDA r : r.rel = f)
      Flip(d) == IF d = "asc" THEN "desc" ELSE "asc"
  IN IF rs = <<>> THEN (f :> Flip(clause[f]))
     ELSE IF rs[1].many THEN (f :> ("_count" :> Flip(clause[f]["_count"])))
     ELSE (f :> FlipClause(rs[1].target, clause[f]))

\* The result of the call's query with every clause's direction reversed,
\* on the store the call ran on.
ReversedRun ==
  FindMany(last.e,
           [last.q EXCEPT !.orderBy = [i \in 1..Len(@) |-> FlipClause(last.e, @[i])]],
           last.pre)

Reverse(s) == [i \in 1..Len(s) |-> s[Len(s) + 1 - i]]

\* A successful findMany ordered by two or more clauses.
MultiClause == Ordered /\ Len(last.q.orderBy) >= 2

\* No two returned rows have equal keys on every clause.
NoFullTies ==
  \A i, j \in 1..Len(last.ret.v) :
    i # j => \E k \in 1..Len(last.q.orderBy) :
               KeyOf(last.ret.v[i], last.q.orderBy[k]) # KeyOf(last.ret.v[j], last.q.orderBy[k])

\* C19 as stated: for every record set and every multi-clause orderBy, the
\* query with every direction reversed returns exactly the reverse sequence.
C19_ReversedDirectionsReverse == MultiClause => ReversedRun = Reverse(last.ret.v)

\* C19 amended: the reversed directions return the reverse sequence when no
\* two records tie on every clause.
C19_ReversedDirectionsReverseUntied ==
  (MultiClause /\ NoFullTies) => ReversedRun = Reverse(last.ret.v)

\* Two rows ordered by two clauses that do not tie on both.
C19_Witness ==
  /\ MultiClause /\ NoFullTies
  /\ Len(last.ret.v) = 2
  /\ last.ret.v[1].id > last.ret.v[2].id

\* The rows of the call's table that have no related row under a to-one
\* relation named by a clause of the call's orderBy.
Unrelated ==
  {p \in last.pre[last.e] :
     \E r \in SeqToSet(Relations(last.e)) :
       /\ ~r.many
       /\ \E i \in 1..Len(last.q.orderBy) : Has(last.q.orderBy[i], r.rel)
       /\ \A x \in last.pre[r.target] : x[r.to] # p[r.from]}

\* C20: a findMany ordered by a to-one relation completes when the related
\* record of some row is absent (the key of that row is null), and returns
\* every row.
C20_AbsentRelationSortsAsNull ==
  (last.op = "findMany" /\ Has(last.q, "orderBy") /\ ~Has(last.q, "where")
     /\ Unrelated # {}) =>
    /\ last.err = None
    /\ Returned = {x.id : x \in last.pre[last.e]}

\* A successful findMany with a where clause that returns the filtered rows
\* as they are: no orderBy, select or include.
Filtered ==
  /\ last.op = "findMany" /\ last.err = None /\ Has(last.q, "where")
  /\ DOMAIN last.q = {"where"}

\* C21: filtering is idempotent: the predicate evaluator applied to its own
\* output with the same clause, on the same store, returns that output
\* unchanged and in the same order.
C21_FilterIdempotent ==
  Filtered =>
    /\ ApplyWhereClause(last.e, last.ret.v, last.q.where, last.pre).rows = last.ret.v
    /\ ApplyWhereClause(last.e, last.ret.v, last.q.where, last.pre).err = None

\* A relation filter that kept some rows of the table and dropped others.
C21_Witness ==
  /\ Filtered
  /\ DOMAIN last.q.where \cap RelationFields(last.e) # {}
  /\ last.ret.v # <<>>
  /\ Len(last.ret.v) < Cardinality(last.pre[last.e])

\* The rows of the call's table that have a related row under the to-one
\* relation r which satisfies the scalar predicate P.
WithRelated(r, P) ==
  {p \in last.pre[last.e] :
     \E x \in Matching(r.target, P, last.pre) : x[r.to] = p[r.from]}

\* C22: for a to-one relation filter with predicate P, `is: P` returns
\* exactly the rows that have a related row satisfying P and `isNot: P`
\* exactly the other rows, the rows whose owning foreign key is null among
\* them.
C22_IsAndIsNotPartition ==
  Filtered =>
    \A r \in SeqToSet(Relations(last.e)) :
      (~r.many /\ DOMAIN last.q.where = {r.rel}) =>
        /\ (DOMAIN last.q.where[r.rel] = {"is"} /\ last.q.where[r.rel].is # NullClause) =>
             Returned = {p.id : p \in WithRelated(r, last.q.where[r.rel].is)}
        /\ (DOMAIN last.q.where[r.rel] = {"isNot"} /\ last.q.where[r.rel].isNot # NullClause) =>
             Returned = {p.id : p \in last.pre[last.e] \ WithRelated(r, last.q.where[r.rel].isNot)}

\* C23: a to-one relation clause whose value is null returns exactly the
\* rows with no related row, and a bare relation object P without is/isNot
\* returns the same rows as `is: P`.
C23_NullAndBareRelationClause ==
  Filtered =>
    \A r \in SeqToSet(Relations(last.e)) :
      (~r.many /\ DOMAIN last.q.where = {r.rel}) =>
        /\ last.q.where[r.rel] = NullClause =>
             Returned = {p.id : p \in last.pre[last.e] \ WithRelated(r, EmptyRec)}
        /\ DOMAIN last.q.where[r.rel] \cap {"is", "isNot", "null"} = {} =>
             last.ret.v = FindMany(last.e, [where |-> (r.rel :> [is |-> last.q.where[r.rel]])],
                                   last.pre)

\* A null author clause that returned some posts and not others.
C23_Witness ==
  /\ Filtered /\ last.e = "Post"
  /\ last.q.where = [author |-> NullClause]
  /\ last.ret.v # <<>>
  /\ Len(last.ret.v) < Cardinality(last.pre["Post"])

\* A null profile clause, evaluated on the caller's transaction, that
\* returned the user without profile.
NullProfileClauseFilters ==
  /\ Filtered /\ last.e = "User"
  /\ last.q.where = [profile |-> NullClause]
  /\ last.ret.v # <<>>

\* A bare author clause that returned some posts and not others.
BareClauseFilters ==
  /\ Filtered /\ last.e = "Post"
  /\ last.q.where = [author |-> [name |-> "John"]]
  /\ last.ret.v # <<>>
  /\ Len(last.ret.v) < Cardinality(last.pre["Post"])

\* The primary keys of a table.
KeysIn(st, e) == {r.id : r \in st[e]}

\* C24: update re-persists the located record under its unchanged primary
\* key: after every update, whatever its payload, the table holds the same
\* set of primary keys as before.
C24_UpdateKeepsKeys ==
  last.op = "update" => KeysIn(last.post, last.e) = KeysIn(last.pre, last.e)

\* The event kind that matches a write operation.
EventKind(op) ==
  CASE op \in {"create", "createMany"} -> "create"
    [] op = "update" -> "update"
    [] op \in {"delete", "deleteMany"} -> "delete"

\* C25: every successful create, update and delete on a model class
\* dispatches the matching event on that class (so its listeners run).
C25_SuccessfulWriteEmits ==
  (last.op \in {"create", "createMany", "update", "delete", "deleteMany"}
     /\ last.err = None /\ ~last.aborted) =>
    \E i \in 1..Len(last.events) :
      last.events[i] = [e |-> last.e, kind |-> EventKind(last.op)]

\* C26: createClient is a singleton factory: all calls that have returned,
\* overlapping ones among them, returned the same client, and the database
\* was opened and the model classes were constructed at most once.
C26_SingletonClient ==
  /\ \A p, q \in 1..MaxCallers :
       (client.got[p] # 0 /\ client.got[q] # 0) => client.got[p] = client.got[q]
  /\ client.opened <= 1
  /\ client.engines <= 1

\* The rows held by the committed store, by the caller's transaction and by
\* the transaction of the last call.
StoredRows(e) == db[e] \cup tx.st[e] \cup last.post[e]

\* C27: materialized relation fields are never persisted: after any
\* sequence of create, createMany, createManyAndReturn and update calls no
\* stored record has a field named after a relation of its entity.
C27_RelationFieldsNotPersisted ==
  \A e \in Entities : \A r \in StoredRows(e) : DOMAIN r \cap RelationFields(e) = {}

\* A create with nested writes and an include that returned the record with
\* the relation attached and stored it.
C27_Witness ==
  /\ last.op = "create" /\ last.err = None /\ Has(last.q, "include")
  /\ DOMAIN last.q.data \cap RelationFields(last.e) # {}
  /\ Has(last.ret.v, "profile")
  /\ \E r \in db[last.e] : r.id = last.ret.v.id

\* The entities whose primary key is a number.
NumericKeyed == Entities \ {"Comment"}

\* The largest number of a set of keys, 0 for the empty set.
Largest(keys) == IF keys = {} THEN 0 ELSE CHOOSE k \in keys : \A o \in keys : o <= k

\* The keys a run of records should be stored under, one after the other, in
\* a table holding the given keys: the supplied key, else the largest + 1.
RECURSIVE KeysDue(_, _)
KeysDue(datas, keys) ==
  IF datas = <<>> THEN <<>>
  ELSE LET k == IF Has(Head(datas), "id") THEN Head(datas).id ELSE Largest(keys) + 1
       IN <<k>> \o KeysDue(Tail(datas), keys \cup {k})

\* The records the last call was asked to store in its own table.
Given == IF last.op = "create" THEN <<last.q.data>> ELSE last.q.data

\* The last call is a successful create, createMany or createManyAndReturn
\* of a numeric-keyed entity.
Filled ==
  /\ last.op \in {"create", "createMany", "createManyAndReturn"}
  /\ last.err = None /\ ~last.aborted
  /\ last.e \in NumericKeyed

\* C28: when create or createMany is given a record without a primary key
\* for a numeric-keyed entity, the record is stored under the largest key of
\* the table at that moment plus 1 (1 when the table is empty); a key
\* supplied by the caller is kept unchanged.
C28_DefaultKeyIsLargestPlusOne ==
  Filled =>
    LET due == KeysDue(Given, KeysIn(last.pre, last.e))
        added == SelectSeq(last.log, LAMBDA w : w.op = "add" /\ w.e = last.e)
    IN /\ Len(added) = Len(due)
       /\ \A i \in 1..Len(due) : added[i].key = due[i]
       /\ KeysIn(last.post, last.e) = KeysIn(last.pre, last.e) \cup SeqToSet(due)
       /\ last.op = "create" => last.ret.v.id = due[1]

\* A createMany into a non-empty table of one record with a supplied key and
\* one without.
C28_Witness ==
  /\ Filled /\ last.op = "createMany"
  /\ KeysIn(last.pre, last.e) # {}
  /\ \E i, j \in 1..Len(last.q.data) :
       Has(last.q.data[i], "id") /\ ~Has(last.q.data[j], "id")

\* A create without a key into a table that already holds a row.
DefaultKeyAfterRows ==
  /\ Filled /\ last.op = "create" /\ ~Has(last.q.data, "id")
  /\ KeysIn(last.pre, last.e) # {}

\* The last call is a successful findMany with a select or an include.
Attaching ==
  /\ last.op = "findMany" /\ last.err = None
  /\ Has(last.q, "select") \/ Has(last.q, "include")

\* The relation is named in the select or the include of the last query.
Named(rel) ==
  \/ Has(last.q, "select") /\ Has(last.q.select, rel)
  \/ Has(last.q, "include") /\ Has(last.q.include, rel)

\* The keys of the rows of the related table whose foreign key is the key of
\* the record.
ChildKeys(r, record) ==
  {c.id : c \in {x \in last.pre[r.target] : Has(x, r.to) /\ x[r.to] = record.id}}

\* C29: the relation attacher sets a requested to-one owning relation to
\* null, without a sub-query, when the record's foreign key is null; it sets
\* a requested to-many relation to exactly the child rows whose foreign key
\* is the record's primary key; a relation named in neither select nor
\* include is not added to the record.
C29_RelationAttacher ==
  Attaching =>
    /\ \A i \in 1..Len(last.ret.v) : \A r \in SeqToSet(Relations(last.e)) :
         LET record == last.ret.v[i]
         IN /\ ~Named(r.rel) => ~Has(record, r.rel)
            /\ Named(r.rel) => Has(record, r.rel)
            /\ (Named(r.rel) /\ r.many) =>
                 /\ {c.id : c \in SeqToSet(record[r.rel])} = ChildKeys(r, record)
                 /\ Len(record[r.rel]) = Cardinality(ChildKeys(r, record))
            /\ (Named(r.rel) /\ r.rel = "author" /\ record.authorId = NullInt) =>
                 record.author = RNull
    /\ (/\ last.e = "Post" /\ Named("author") /\ DOMAIN last.q = {"include"}
        /\ \A x \in last.pre["Post"] : x.authorId = NullInt) =>
         "User" \notin last.reads /\ last.own = {}

\* A findMany of Post with its comments where some Post got a non-empty list
\* that is not the whole Comment table.
C29_Witness ==
  /\ Attaching /\ last.e = "Post" /\ Named("comments")
  /\ \E i \in 1..Len(last.ret.v) :
       /\ last.ret.v[i].comments # <<>>
       /\ Len(last.ret.v[i].comments) < Cardinality(last.pre["Comment"])

\* A findMany of Post with its author over a Post without author and a Post
\* with one.
NullAuthorAttached ==
  /\ Attaching /\ last.e = "Post" /\ Named("author")
  /\ \E i, j \in 1..Len(last.ret.v) :
       /\ last.ret.v[i].authorId = NullInt /\ last.ret.v[i].author = RNull
       /\ last.ret.v[j].authorId # NullInt /\ IsRec(last.ret.v[j].author)

\* A findMany of Post with its author over Posts without author only.
NoAuthorSubQuery ==
  /\ Attaching /\ last.e = "Post" /\ Named("author") /\ last.ret.v # <<>>
  /\ \A x \in last.pre["Post"] : x.authorId = NullInt

\* The rows findMany matches for the query of the last call before the call.
Matched == FindMany(last.e, last.q, last.pre)

\* The keys the last call deleted from its own table, in the order deleted.
DeletedKeys ==
  LET dels == SelectSeq(last.log, LAMBDA w : w.op = "delete" /\ w.e = last.e)
  IN [i \in 1..Len(dels) |-> dels[i].key]

\* C30: deleteMany deletes, through the entity's own delete, every row that
\* findMany matches for its where clause, in scan order, and returns a count
\* equal to the number of rows matched; afterwards findMany with the same
\* where clause returns the empty sequence.
C30_DeleteManyDeletesMatched ==
  last.op = "deleteMany" =>
    /\ last.err = None
    /\ last.ret = [k |-> "count", v |-> Len(Matched)]
    /\ DeletedKeys = [i \in 1..Len(Matched) |-> Matched[i].id]
    /\ FindMany(last.e, last.q, last.post) = <<>>

\* The same for a table without a row of key 0.
DeleteManyWithoutKeyZero ==
  (last.op = "deleteMany" /\ (last.e = "Comment" \/ 0 \notin KeysIn(last.pre, last.e))) =>
    /\ last.err = None
    /\ last.ret = [k |-> "count", v |-> Len(Matched)]
    /\ DeletedKeys = [i \in 1..Len(Matched) |-> Matched[i].id]
    /\ FindMany(last.e, last.q, last.post) = <<>>

\* A deleteMany that matched two rows and deleted both.
DeleteManyOfTwo ==
  /\ last.op = "deleteMany" /\ last.err = None
  /\ Len(Matched) = 2 /\ Len(DeletedKeys) = 2

\* The row the last create stored and returned.
Persisted == CHOOSE r \in last.post[last.e] : r.id = last.ret.v.id

\* The last call is a successful create without a select.
Created ==
  /\ last.op = "create" /\ last.err = None /\ ~last.aborted
  /\ ~Has(last.q, "select")

\* C31: after create with an optional scalar field or a list field left
\* unset, the record persisted and the record returned have null for the
\* optional scalar and the empty list for the list field; a list given as
\* {set: [...]} is stored as the plain sequence.
C31_UnsetFieldsGetDefaults ==
  Created =>
    /\ (last.e = "Profile" /\ ~Has(last.q.data, "bio")) =>
         Persisted.bio = NullStr /\ last.ret.v.bio = NullStr
    /\ \A f \in ListFields(last.e) :
         /\ ~Has(last.q.data, f) =>
              /\ Has(last.ret.v, f) /\ last.ret.v[f] = <<>>
              /\ Has(Persisted, f) /\ Persisted[f] = <<>>
         /\ (Has(last.q.data, f) /\ Has(last.q.data[f], "set")) =>
              Persisted[f] = last.q.data[f].set /\ last.ret.v[f] = last.q.data[f].set

\* The same without the persisted list fields of a Post: what create returns.
ReturnedDefaults ==
  Created =>
    /\ (last.e = "Profile" /\ ~Has(last.q.data, "bio")) =>
         Persisted.bio = NullStr /\ last.ret.v.bio = NullStr
    /\ (last.e = "Post" /\ ~Has(last.q.data, "authorId") /\ ~Has(last.q.data, "author")) =>
         Persisted.authorId = NullInt /\ last.ret.v.authorId = NullInt
    /\ \A f \in ListFields(last.e) :
         /\ ~Has(last.q.data, f) => Has(last.ret.v, f) /\ last.ret.v[f] = <<>>
         /\ (Has(last.q.data, f) /\ Has(last.q.data[f], "set")) =>
              Persisted[f] = last.q.data[f].set /\ last.ret.v[f] = last.q.data[f].set
         /\ (Has(last.q.data, f) /\ Has(last.q.data[f], "arr")) =>
              Persisted[f] = last.q.data[f].arr /\ last.ret.v[f] = last.q.data[f].arr

\* A Post created with its tags in a set wrapper, and a Profile created
\* without bio.
WrappedListCreated == Created /\ last.e = "Post" /\ Has(last.q.data, "tags")

ProfileWithoutBioCreated == Created /\ last.e = "Profile" /\ ~Has(last.q.data, "bio")

\* The last call is a Post.create without keys whose comments each carry a
\* nested create of a User without a key.
ConcurrentUserCreates ==
  /\ last.op = "create" /\ last.e = "Post" /\ ~Has(last.q.data, "id")
  /\ HasSub(last.q.data, "comments", "create")
  /\ DOMAIN last.q.data \cap RelationFields("Post") = {"comments"}
  /\ \A i \in 1..Len(last.q.data.comments.create) :
       LET elem == last.q.data.comments.create[i]
       IN /\ DOMAIN elem = {"text", "user"}
          /\ DOMAIN elem.user = {"create"}
          /\ DOMAIN elem.user.create \cap ({"id"} \cup RelationFields("User")) = {}

\* C32: within one transaction, the create sub-operations on the same
\* numeric-keyed entity that omit the primary key get distinct keys, also
\* when a nested to-many create starts them together (a Post.create whose
\* comments each create a User): the call raises no duplicate-key failure
\* and adds one User per comment.
C32_ConcurrentCreatesGetDistinctKeys ==
  ConcurrentUserCreates =>
    /\ last.err # ConstraintError /\ ~last.aborted
    /\ Cardinality(KeysIn(last.post, "User") \ KeysIn(last.pre, "User"))
         = Len(last.q.data.comments.create)

\* The same for the calls that start one such create only.
SingleNestedCreateGetsKey ==
  (ConcurrentUserCreates /\ Len(last.q.data.comments.create) = 1) =>
    /\ last.err = None /\ ~last.aborted
    /\ Cardinality(KeysIn(last.post, "User") \ KeysIn(last.pre, "User")) = 1

\* Every non-null foreign key of a Profile, Post or Comment row of the store
\* is the key of a row of the referenced table.
Referenced(st) ==
  /\ \A r \in st["Profile"] : r.userId \in KeysIn(st, "User")
  /\ \A r \in st["Post"] : r.authorId = NullInt \/ r.authorId \in KeysIn(st, "User")
  /\ \A r \in st["Comment"] : r.postId \in KeysIn(st, "Post") /\ r.userId \in KeysIn(st, "User")

\* The last call is a successful write.
Written ==
  /\ last.op \in {"create", "createMany", "createManyAndReturn", "update", "delete", "deleteMany"}
  /\ last.err = None /\ ~last.aborted

\* C33: referential integrity is an invariant of the store: a successful
\* create, createMany, update, delete or deleteMany on a store in which every
\* non-null foreign key names an existing row leaves such a store.
C33_ReferentialIntegrity ==
  (Written /\ Referenced(last.pre)) => Referenced(last.post)

\* The same for create alone.
CreateKeepsIntegrity ==
  (Written /\ last.op = "create" /\ Referenced(last.pre)) => Referenced(last.post)

\* The store a call leaves: the store before it when its transaction was
\* aborted.
After == IF last.aborted THEN last.pre ELSE last.post

\* The rows the selector of the last call locates in its table.
Located == Matching(last.e, last.q.where, last.pre)

\* The rows of table t that are cascade children of the located rows.
CascadeRows(t) ==
  {r \in last.pre[t] :
     \E ch \in SeqToSet(CascadeChildren(last.e)), l \in Located :
       ch.child = t /\ r[ch.fk] = l.id}

\* C34: delete changes nothing but the located row and its cascade children:
\* for every delete query, also one whose select omits the primary key, the
\* located row is removed and every row that is neither the located row nor
\* a cascade child of it is in the store unchanged.
C34_DeleteFrame ==
  last.op = "delete" =>
    /\ After[last.e] = last.pre[last.e] \ Located
    /\ \A t \in Entities \ {last.e} :
         /\ After[t] \subseteq last.pre[t]
         /\ last.pre[t] \ CascadeRows(t) \subseteq After[t]

\* The same for the delete queries whose result keeps the primary key.
DeleteFrameWithKey ==
  (last.op = "delete" /\ (Has(last.q, "select") => Has(last.q.select, "id"))) =>
    /\ After[last.e] = last.pre[last.e] \ Located
    /\ \A t \in Entities \ {last.e} :
         /\ After[t] \subseteq last.pre[t]
         /\ last.pre[t] \ CascadeRows(t) \subseteq After[t]

\* A delete with a select that keeps the primary key removed its row.
SelectedDeleteRemoved ==
  /\ last.op = "delete" /\ last.err = None /\ Has(last.q, "select")
  /\ Located # {} /\ After[last.e] = last.pre[last.e] \ Located

\* The last call is a successful findMany with a select that returned rows.
Selected ==
  /\ last.op = "findMany" /\ last.err = None
  /\ Has(last.q, "select") /\ last.ret.v # <<>>

\* C35: a query with a select clause returns records that contain exactly
\* the fields the select names, scalars and attached relations, and no
\* others, for every entity including those with list fields.
C35_SelectExactFields ==
  Selected => \A i \in 1..Len(last.ret.v) : DOMAIN last.ret.v[i] = DOMAIN last.q.select

\* The same up to the list fields of the entity.
SelectExactButLists ==
  Selected =>
    \A i \in 1..Len(last.ret.v) :
      DOMAIN last.ret.v[i] = DOMAIN last.q.select \cup ListFields(last.e)

\* A select on User returned rows.
UserSelected == Selected /\ last.e = "User"

\* The unique key of the last query locates a row that does not satisfy the
\* remaining conditions of its where clause.
LocatedButRejected ==
  /\ Has(last.q, "where") /\ Has(last.q.where, "id")
  /\ Matching(last.e, [id |-> last.q.where.id], last.pre) # {}
  /\ Matching(last.e, last.q.where, last.pre) = {}

\* C36: findUnique returns either null or a record: when the row located by
\* the unique key does not satisfy the remaining conditions of the where
\* clause it returns null, neither undefined nor an exception, and
\* findUniqueOrThrow then raises not-found.
C36_FindUniqueNullOrRecord ==
  /\ last.op = "findUnique" => last.err = None /\ last.ret.k \in {"null", "rec"}
  /\ (last.op = "findUnique" /\ LocatedButRejected) => last.ret = RNull
  /\ (last.op = "findUniqueOrThrow" /\ LocatedButRejected) => last.err = NotFound

\* The same for the selectors that locate no row or a row that satisfies
\* the whole where clause.
FindUniqueWithoutRejection ==
  ~LocatedButRejected =>
    /\ last.op = "findUnique" => last.err = None /\ last.ret.k \in {"null", "rec"}
    /\ last.op = "findUniqueOrThrow" =>
         IF Matching(last.e, last.q.where, last.pre) = {} THEN last.err = NotFound
         ELSE last.err = None /\ IsRec(last.ret)

\* findUnique of a User located by key and rejected by the name condition;
\* the same for a Post and its title.
UserRejected == last.op = "findUnique" /\ last.e = "User" /\ LocatedButRejected

PostRejected == last.op = "findUnique" /\ last.e = "Post" /\ LocatedButRejected

\* The rows findMany returns for the where clause of the last query alone.
MatchedByWhere ==
  FindMany(last.e, IF Has(last.q, "where") THEN [where |-> last.q.where] ELSE EmptyRec,
           last.pre)

\* The row has a value other than null in the field.
Valued(r, f) ==
  /\ Has(r, f)
  /\ r[f] # (IF f \in StringFields(last.e) THEN NullStr ELSE NullInt)

\* C37: count with a field selection returns, for each selected field, the
\* number of rows that match the where clause and have a non-null value in
\* the field, and for _all the number of rows that match the where clause;
\* without a selection it returns the length of findMany for the where
\* clause.
C37_CountWithSelection ==
  (last.op = "count" /\ last.err = None) =>
    IF Has(last.q, "select")
    THEN /\ last.ret.k = "counts"
         /\ DOMAIN last.ret.v = DOMAIN last.q.select
         /\ \A f \in DOMAIN last.q.select :
              last.ret.v[f] =
                IF f = "_all" THEN Len(MatchedByWhere)
                ELSE Cardinality({i \in 1..Len(MatchedByWhere) : Valued(MatchedByWhere[i], f)})
    ELSE last.ret = [k |-> "count", v |-> Len(MatchedByWhere)]

\* The same for the counts without a where clause or without a selected
\* field other than _all.
CountOfWholeTable ==
  (/\ last.op = "count" /\ last.err = None
   /\ ~Has(last.q, "where") \/ ~Has(last.q, "select") \/ DOMAIN last.q.select = {"_all"}) =>
    IF Has(last.q, "select")
    THEN /\ last.ret.k = "counts"
         /\ DOMAIN last.ret.v = DOMAIN last.q.select
         /\ \A f \in DOMAIN last.q.select :
              last.ret.v[f] =
                IF f = "_all" THEN Len(MatchedByWhere)
                ELSE Cardinality({i \in 1..Len(MatchedByWhere) : Valued(MatchedByWhere[i], f)})
    ELSE last.ret = [k |-> "count", v |-> Len(MatchedByWhere)]

\* A count of the Profiles with a bio over a store with a Profile without.
NullFieldNotCounted ==
  /\ last.op = "count" /\ last.err = None /\ last.e = "Profile"
  /\ ~Has(last.q, "where") /\ Has(last.q, "select")
  /\ last.ret.v["_all"] = 1 /\ last.ret.v["bio"] = 0

\* The last call is one of the read operations.
Reading == last.op \in {"findMany", "findFirst", "findUnique", "count"}

\* C38: findMany, findFirst, findUnique and count leave every table of the
\* store unchanged, on a readonly transaction of their own and on the
\* caller's readwrite transaction, which they do not abort; findFirst
\* returns the first element of findMany for the same query, or null when
\* findMany returns none.
C38_ReadsLeaveStoreUnchanged ==
  /\ Reading =>
       /\ last.post = last.pre /\ last.log = <<>> /\ ~last.aborted
       /\ IF last.mode = "own" THEN db = last.pre
          ELSE tx.active /\ ~tx.aborted /\ tx.st = last.pre
  /\ last.op = "findFirst" =>
       /\ last.err = None
       /\ LET rows == FindMany(last.e, last.q, last.pre)
          IN IF Len(rows) = 0 THEN last.ret = RNull
             ELSE last.ret = [k |-> "rec", v |-> rows[1]]

\* A findFirst on the caller's transaction that returned a record, and one
\* that found none.
C38_Witness ==
  /\ last.op = "findFirst" /\ last.mode = "caller" /\ IsRec(last.ret)
  /\ last.pre[last.e] # {}

FindFirstFoundNone == last.op = "findFirst" /\ last.ret = RNull /\ last.pre[last.e] # {}

====
